---------------------------- MODULE Spec2Model ----------------------------
(***************************************************************************)
(* A model of src/src/server.ts (class NpmPackageServer).                  *)
(*                                                                         *)
(* The specifications of this module:                                     *)
(*   SpecCache  the popular-packages resource and its single cache slot,   *)
(*              two requests and the clock                                 *)
(*   SpecSeeds  one popular-packages request and the clock                 *)
(*   SpecDigest one popular-packages request with long and repeating pages *)
(*   SpecCall   one tool call with any arguments: argument checks,         *)
(*              metadata GET, archive download/extraction, file reads      *)
(*   SpecTool   two tool calls, overlapping or one after the other         *)
(*   SpecTime   one tool call and the time its archive request is idle     *)
(*   SpecSettle one tool call under weak fairness of its steps             *)
(*   SpecOnce   one tool call and the events after its requests settled    *)
(*   SpecNames  two listing calls for the names p, '.' and '..'            *)
(*   SpecServer one tool call and one popular-packages request             *)
(*   SpecUnpack one archive download from the request on, for any archive  *)
(*              whose entries lie under one wrapper directory              *)
(*   SpecWalk   the directory walkers applied to bounded directory trees   *)
(* Strings are TLA+ strings, read character by character with SubSeq.      *)
(* An absolute path is the sequence of its segments.                       *)
(***************************************************************************)
EXTENDS Integers, Sequences, FiniteSets, TLC

VARIABLES
    clock,                      \* Date.now(), in ms since the process started
    ticks,                      \* number of clock advances so far (bounds the model)
    popularPackagesCache,       \* server.ts:122
    popularPackagesCacheTime,   \* server.ts:123
    popReq,                     \* the in-flight / finished getPopularPackages calls
    fs,                         \* the file system: entries in directory order
    walkOut,                    \* SpecWalk: what the walkers returned for fs
    toolReq                     \* the in-flight / finished tool calls

cacheVars == <<clock, ticks, popularPackagesCache, popularPackagesCacheTime, popReq>>

vars == <<cacheVars, fs, walkOut, toolReq>>

(***************************************************************************)
(* Bounds of the model.                                                    *)
(***************************************************************************)
MaxTicks == 3

\* The time an archive request has been in flight is counted up to this.
MaxElapsed == 40000

\* Two calls: enough for one call after another and for two overlapping calls.
PopReqs == {1, 2}

ToolReqs == {1, 2}

(***************************************************************************)
(* Generic helpers.                                                        *)
(***************************************************************************)
Range(s) == {s[i] : i \in 1..Len(s)}

Min(a, b) == IF a < b THEN a ELSE b

\* Array.prototype.slice(0, n)
Slice0(s, n) == SubSeq(s, 1, Min(n, Len(s)))

(***************************************************************************)
(* Strings and paths (String.prototype and the path module, POSIX).        *)
(***************************************************************************)
CharAt(s, i) == SubSeq(s, i, i)

\* String.prototype.startsWith, for a one-character prefix
StartsWith(s, c) == Len(s) >= 1 /\ CharAt(s, 1) = c

UpperCase == "ABCDEFGHIJKLMNOPQRSTUVWXYZ"

LowerCase == "abcdefghijklmnopqrstuvwxyz"

LowerOf == [i \in 1..Len(UpperCase) |-> CharAt(LowerCase, i)]

UpperChars == {CharAt(UpperCase, i) : i \in 1..Len(UpperCase)}

UpperIndex == [c \in UpperChars |-> CHOOSE i \in 1..Len(UpperCase) : CharAt(UpperCase, i) = c]

LowerChar(c) == IF c \in UpperChars THEN LowerOf[UpperIndex[c]] ELSE c

\* String.prototype.toLowerCase
RECURSIVE ToLowerFrom(_, _)
ToLowerFrom(s, i) ==
    IF i > Len(s) THEN "" ELSE LowerChar(CharAt(s, i)) \o ToLowerFrom(s, i + 1)

ToLowerCase(s) == ToLowerFrom(s, 1)

\* path.extname of a base name: from its last '.', unless that is its first
\* character or there is none.
Extname(name) ==
    LET dots == {i \in 1..Len(name) : CharAt(name, i) = "."}
    IN  IF dots = {} THEN ""
        ELSE LET last == CHOOSE i \in dots : \A j \in dots : j <= i
             IN  IF last = 1 THEN "" ELSE SubSeq(name, last, Len(name))

\* The segments of a path string, split at '/'.
RECURSIVE SplitFrom(_, _, _)
SplitFrom(s, i, cur) ==
    IF i > Len(s) THEN <<cur>>
    ELSE IF CharAt(s, i) = "/" THEN <<cur>> \o SplitFrom(s, i + 1, "")
         ELSE SplitFrom(s, i + 1, cur \o CharAt(s, i))

SplitPath(s) == SplitFrom(s, 1, "")

\* path.normalize of an absolute path: '' and '.' vanish, '..' drops the
\* segment before it (and vanishes at the root).
RECURSIVE NormalizeFrom(_, _, _)
NormalizeFrom(segs, i, acc) ==
    IF i > Len(segs) THEN acc
    ELSE IF segs[i] \in {"", "."} THEN NormalizeFrom(segs, i + 1, acc)
    ELSE IF segs[i] = ".."
         THEN NormalizeFrom(segs, i + 1,
                            IF acc = <<>> THEN acc ELSE SubSeq(acc, 1, Len(acc) - 1))
         ELSE NormalizeFrom(segs, i + 1, Append(acc, segs[i]))

\* path.join(base, s) for an absolute base
PathJoin(base, s) == NormalizeFrom(base \o SplitPath(s), 1, <<>>)

IsPrefix(p, q) == Len(p) <= Len(q) /\ SubSeq(q, 1, Len(p)) = p

\* path.relative(from, to), as segments
RECURSIVE CommonLen(_, _, _)
CommonLen(p, q, n) ==
    IF n < Len(p) /\ n < Len(q) /\ p[n + 1] = q[n + 1] THEN CommonLen(p, q, n + 1) ELSE n

PathRelative(from, to) ==
    LET n == CommonLen(from, to, 0)
    IN  [i \in 1..(Len(from) - n) |-> ".."] \o SubSeq(to, n + 1, Len(to))

\* The path string of a sequence of segments.
RECURSIVE JoinSegs(_)
JoinSegs(segs) ==
    IF segs = <<>> THEN ""
    ELSE IF Len(segs) = 1 THEN segs[1]
    ELSE segs[1] \o "/" \o JoinSegs(Tail(segs))

\* String.prototype.trim, for blanks
RECURSIVE TrimStart(_)
TrimStart(s) == IF StartsWith(s, " ") THEN TrimStart(SubSeq(s, 2, Len(s))) ELSE s

RECURSIVE TrimEnd(_)
TrimEnd(s) ==
    IF Len(s) >= 1 /\ CharAt(s, Len(s)) = " " THEN TrimEnd(SubSeq(s, 1, Len(s) - 1)) ELSE s

Trim(s) == TrimEnd(TrimStart(s))

\* encodeURIComponent: the characters of the model that it escapes
PercentCode(c) ==
    IF c = "@" THEN "%40" ELSE IF c = "/" THEN "%2F" ELSE IF c = " " THEN "%20" ELSE c

RECURSIVE EncodeFrom(_, _)
EncodeFrom(s, i) ==
    IF i > Len(s) THEN "" ELSE PercentCode(CharAt(s, i)) \o EncodeFrom(s, i + 1)

encodeURIComponent(s) == EncodeFrom(s, 1)

(***************************************************************************)
(* PopularityCache: getPopularPackages, server.ts:369-462.                 *)
(***************************************************************************)
\* `null` and the empty text are both falsy in the check of line 372.
Null == <<>>

CACHE_DURATION == 24 * 60 * 60 * 1000

\* The amounts by which the clock may advance in one step: they make ages of
\* 1, CACHE_DURATION - 1, CACHE_DURATION and CACHE_DURATION + 1 reachable.
TickSteps == {1, CACHE_DURATION - 1}

popularQueries ==
    <<"react", "lodash", "express", "typescript", "webpack",
      "eslint", "babel", "prettier", "jest", "axios">>

SeedLimit == 5

AllSeedTerms == popularQueries

\* server.ts:391: popularQueries.slice(0, 5)
SeedTerms == Slice0(popularQueries, SeedLimit)

SeedSize == 10

SeedFrom == 0

TopLimit == 50

\* The packages the index may return (SearchResult, server.ts:50-78).
PkgA == [name |-> "ab", description |-> "", keywords |-> 0]

PkgB == [name |-> "a-package-with-a-long-name", description |-> "d", keywords |-> 3]

\* What one search may settle with: a rejection or the hit list of the body.
SearchFailure == [ok |-> FALSE, objects |-> <<>>, error |-> "HTTP request failed"]

SearchOk(hits) == [ok |-> TRUE, objects |-> hits, error |-> ""]

\* The rejections of performPackageSearch: request error (server.ts:486-488),
\* timeout (490-493), unparsable body (480-482).
SearchFailures ==
    {[SearchFailure EXCEPT !.error = e] :
        e \in {"HTTP request failed", "Search request timeout", "Invalid JSON response"}}

SearchOutcomes ==
    SearchFailures \cup {SearchOk(<<>>), SearchOk(<<PkgA>>), SearchOk(<<PkgA, PkgB, PkgA>>)}

\* The request performPackageSearch sends (server.ts:466-467).
SearchGet(query, size, from) ==
    [endpoint |-> "search", text |-> encodeURIComponent(query), size |-> size, from |-> from]

\* server.ts:372
IsFreshOffByOne(now) ==
    /\ popularPackagesCache # Null
    /\ (now - popularPackagesCacheTime) < CACHE_DURATION - 1

IsFreshInclusive(now) ==
    /\ popularPackagesCache # Null
    /\ (now - popularPackagesCacheTime) <= CACHE_DURATION

IsFreshNonEmpty(now) ==
    /\ popularPackagesCache # Null
    /\ Len(popularPackagesCache) > 2
    /\ (now - popularPackagesCacheTime) < CACHE_DURATION

IsFresh(now) ==
    /\ popularPackagesCache # Null
    /\ (now - popularPackagesCacheTime) < CACHE_DURATION

\* server.ts:408-409, times ten to stay in the integers.
HeuristicScore(p) ==
    (IF Len(p.name) < 15 THEN 10 ELSE 0)
    + (IF p.description # "" THEN 10 ELSE 0)
    + p.keywords

\* Array.prototype.sort with the comparator of line 410: stable, descending, so
\* an element goes after every element of at least its own score.
RECURSIVE InsertByScore(_, _)
InsertByScore(sorted, p) ==
    IF sorted = <<>> THEN <<p>>
    ELSE IF HeuristicScore(p) > HeuristicScore(Head(sorted))
         THEN <<p>> \o sorted
         ELSE <<Head(sorted)>> \o InsertByScore(Tail(sorted), p)

RECURSIVE SortByScoreFrom(_, _)
SortByScoreFrom(details, i) ==
    IF i = 0 THEN <<>>
    ELSE InsertByScore(SortByScoreFrom(details, i - 1), details[i])

SortByScore(details) == SortByScoreFrom(details, Len(details))

\* server.ts:413-444: the digest text, one record per block of lines.
PackageBlock(p, i) ==
    [line |-> "package", rank |-> i, name |-> p.name,
     description |-> IF p.description # "" THEN p.description
                     ELSE "No description available",
     keywords |-> p.keywords]

FormatDigest(details, at) ==
    LET topPackages == Slice0(details, TopLimit)
    IN  <<[line |-> "title"], [line |-> "updated", at |-> at]>>
        \o [i \in 1..Len(topPackages) |-> PackageBlock(topPackages[i], i)]

AccumulateAll(acc, objects) ==
    [allPopularPackages |-> acc.allPopularPackages \cup {objects[i].name : i \in 1..Len(objects)},
     packageDetails |-> acc.packageDetails \o objects]

\* server.ts:394-399: the hits of one successful search, deduplicated by name.
RECURSIVE Accumulate(_, _)
Accumulate(acc, objects) ==
    IF objects = <<>> THEN acc
    ELSE LET p == Head(objects)
         IN  IF p.name \in acc.allPopularPackages
             THEN Accumulate(acc, Tail(objects))
             ELSE Accumulate(
                    [allPopularPackages |-> acc.allPopularPackages \cup {p.name},
                     packageDetails |-> Append(acc.packageDetails, p)],
                    Tail(objects))

(***************************************************************************)
(* Tool calls: values and arguments (server.ts:268-311, 497-502).          *)
(***************************************************************************)
\* JavaScript values of the kinds an argument may have.
Undefined == [t |-> "undefined", s |-> "", n |-> 0]

Str(s) == [t |-> "string", s |-> s, n |-> 0]

Num(n) == [t |-> "number", s |-> "", n |-> n]

\* typeof v === 'string'
IsString(v) == v.t = "string"

\* !v
Falsy(v) ==
    \/ v.t = "undefined"
    \/ v.t = "string" /\ v.s = ""
    \/ v.t = "number" /\ v.n = 0

\* request.params.arguments: absent, or an object with these properties.
NoArguments ==
    [given |-> FALSE, packageName |-> Undefined, version |-> Undefined,
     filePath |-> Undefined, query |-> Undefined, size |-> Undefined, from |-> Undefined]

PackageArgs(packageName, version, filePath) ==
    [given |-> TRUE, packageName |-> packageName, version |-> version,
     filePath |-> filePath, query |-> Undefined, size |-> Undefined, from |-> Undefined]

SearchArgs(query, size, from) ==
    [given |-> TRUE, packageName |-> Undefined, version |-> Undefined,
     filePath |-> Undefined, query |-> query, size |-> size, from |-> from]

(***************************************************************************)
(* The tool handlers as processes: one record per call (server.ts:268-598).*)
(*   pc        "idle", "meta" (awaiting fetchPackageInfo), "download"      *)
(*             (awaiting downloadAndExtract), "search", "done"             *)
(*   gets      the GET requests the call has issued, in order              *)
(*   stage     of the archive request: "none", "sent", "nopipe" (status    *)
(*             other than 200), "piping", "broken" (a stage failed),       *)
(*             "ended"                                                      *)
(*   socket    of the archive request: "none", "open", "closed", "released"*)
(*   handed    archive entries the unpack stage has received               *)
(*   written   archive entries the unpack stage has written to disk        *)
(*   status    the status code of the archive response, 0 before it        *)
(*   idle      ms since the last activity on the open socket of the        *)
(*             archive request (what request.setTimeout measures)          *)
(*   elapsed   ms the archive request has been in flight since it was sent *)
(*   reported  the 'error' events emitted so far, by emitter               *)
(*   finishedBefore  history: the calls that were over, with every stage   *)
(*             of their pipelines, when this call ran its clean step       *)
(*   fsCalls   the file system calls of getSpecificFile                    *)
(*   response  what the protocol layer got                                 *)
(***************************************************************************)
NoResponse == [kind |-> "none"]

Result(text) == [kind |-> "result", text |-> text]

Failure(error) == [kind |-> "error", error |-> error]

IdleToolReq ==
    [pc |-> "idle", name |-> "", args |-> NoArguments, gets |-> <<>>,
     packageInfo |-> Null, extractPath |-> <<>>,
     archive |-> <<>>, stage |-> "none", socket |-> "none", status |-> 0,
     idle |-> 0, elapsed |-> 0, handed |-> 0, written |-> 0, reported |-> <<>>,
     finishedBefore |-> {}, fsCalls |-> <<>>, late |-> 0, response |-> NoResponse]

\* SpecWalk has applied no walker yet.
NoWalk == [pc |-> "list", listed |-> <<>>, collected |-> <<>>]

IdlePopReq ==
    [pc |-> "idle", now |-> 0, idx |-> 0, allPopularPackages |-> {},
     packageDetails |-> <<>>, log |-> <<>>, errors |-> 0, result |-> Null]

\* server.ts:392-402: the hits one settled seed search contributes, none when
\* it failed
SeedHitsNone(outcome) == <<>>

SeedHits(outcome) == IF outcome.ok THEN outcome.objects ELSE <<>>

\* server.ts:391: the for-of loop goes on to the next seed term, whatever the
\* search of the current one settled with
NextSeedRetrying(idx, outcome) == IF outcome.ok THEN idx + 1 ELSE idx

NextSeed(idx, outcome) == idx + 1

\* server.ts:448: the timestamp a recomputation stores with its digest, the
\* `now` it read when it began
StoredTimeOfClock(me) == clock

StoredTime(me) == me.now

\* server.ts:400-402: the number of console.error lines "Failed to search
\* for <term>" written so far, one more when the search failed
SeedErrors(errors, outcome) == IF outcome.ok THEN errors ELSE errors + 1

\* getPopularPackages up to its first suspension point (server.ts:369-393).
GetPopularPackages(r) ==
    /\ popReq[r].pc = "idle"
    /\ \A q \in PopReqs : q < r => popReq[q].pc # "idle"
    /\ LET now == clock
       IN  IF IsFresh(now)
           THEN popReq' = [popReq EXCEPT ![r] =
                    [@ EXCEPT !.pc = "done", !.now = now,
                              !.result = popularPackagesCache]]
           ELSE popReq' = [popReq EXCEPT ![r] =
                    [@ EXCEPT !.pc = "searching", !.now = now, !.idx = 1,
                              !.log = <<SearchGet(SeedTerms[1], SeedSize, SeedFrom)>>]]
    /\ UNCHANGED <<clock, ticks, popularPackagesCache, popularPackagesCacheTime>>
    /\ UNCHANGED <<fs, walkOut, toolReq>>

\* The awaited search of seed idx settles; the loop goes on to the next seed or,
\* after the last one, sorts, formats and stores (server.ts:393-455).
SeedSearchSettles(r, outcome) ==
    /\ popReq[r].pc = "searching"
    /\ LET me == popReq[r]
           acc == Accumulate([allPopularPackages |-> me.allPopularPackages,
                              packageDetails |-> me.packageDetails],
                             SeedHits(outcome))
           errors == SeedErrors(me.errors, outcome)
           next == NextSeed(me.idx, outcome)
       IN  IF next <= Len(SeedTerms)
           THEN /\ popReq' = [popReq EXCEPT ![r] =
                      [@ EXCEPT !.idx = next,
                                !.allPopularPackages = acc.allPopularPackages,
                                !.packageDetails = acc.packageDetails,
                                !.errors = errors,
                                !.log = Append(me.log,
                                    SearchGet(SeedTerms[next], SeedSize, SeedFrom))]]
                /\ UNCHANGED <<popularPackagesCache, popularPackagesCacheTime>>
           ELSE LET sorted == SortByScore(acc.packageDetails)
                    resultText == FormatDigest(sorted, clock)
                IN  /\ popularPackagesCache' = resultText
                    /\ popularPackagesCacheTime' = StoredTime(me)
                    /\ popReq' = [popReq EXCEPT ![r] =
                          [@ EXCEPT !.pc = "done",
                                    !.allPopularPackages = acc.allPopularPackages,
                                    !.packageDetails = sorted,
                                    !.errors = errors,
                                    !.result = resultText]]
    /\ UNCHANGED <<clock, ticks>>
    /\ UNCHANGED <<fs, walkOut, toolReq>>

\* Time passes.
Tick(d) ==
    /\ ticks < MaxTicks
    /\ clock' = clock + d
    /\ ticks' = ticks + 1
    /\ UNCHANGED <<popularPackagesCache, popularPackagesCacheTime, popReq>>
    /\ UNCHANGED <<fs, walkOut, toolReq>>

InitCache ==
    /\ clock = 0
    /\ ticks = 0
    /\ popularPackagesCache = Null
    /\ popularPackagesCacheTime = 0
    /\ popReq = [r \in PopReqs |-> IdlePopReq]
    /\ fs = <<>>
    /\ walkOut = NoWalk
    /\ toolReq = [r \in ToolReqs |-> IdleToolReq]

NextCache ==
    \/ \E r \in PopReqs : GetPopularPackages(r)
    \/ \E r \in PopReqs : \E outcome \in SearchOutcomes : SeedSearchSettles(r, outcome)
    \/ \E d \in TickSteps : Tick(d)

SpecCache == InitCache /\ [][NextCache]_vars

\* SpecSeeds: one popularity request, with the time that passes meanwhile.
NextSeeds ==
    \/ GetPopularPackages(1)
    \/ \E outcome \in SearchOutcomes : SeedSearchSettles(1, outcome)
    \/ \E d \in TickSteps : Tick(d)

SpecSeeds == InitCache /\ [][NextSeeds]_vars

\* SpecDigest: one popularity request whose seed searches may also return
\* pages longer than the size asked for, with names no other page has, and a
\* package that shares its name with another one.
PageSize == 13

MaxPages == 4

Page(k) ==
    [i \in 1..PageSize |->
        [name |-> "p" \o ToString(k) \o "-" \o ToString(i),
         description |-> IF i % 2 = 0 THEN "d" ELSE "",
         keywords |-> i % 3]]

PkgA2 == [PkgA EXCEPT !.description = "another ab", !.keywords = 2]

DigestOutcomes ==
    {SearchFailure, SearchOk(<<PkgA, PkgB, PkgA>>), SearchOk(<<PkgA2, PkgA>>)}
    \cup {SearchOk(Page(k)) : k \in 1..MaxPages}

NextDigest ==
    \/ GetPopularPackages(1)
    \/ \E outcome \in DigestOutcomes : SeedSearchSettles(1, outcome)

SpecDigest == InitCache /\ [][NextDigest]_vars

(***************************************************************************)
(* The file system (fs module).  An entry is a directory or a regular file *)
(* at an absolute path; acc tells what fails on it: "nostat" makes         *)
(* statSync throw, "noread" makes readdirSync (directory) or readFileSync  *)
(* (file) throw.  The order of the sequence is the order readdirSync lists *)
(* the entries in.                                                         *)
(***************************************************************************)
Dir(path) == [path |-> path, kind |-> "dir", data |-> "", acc |-> "ok"]

File(path, data) == [path |-> path, kind |-> "file", data |-> data, acc |-> "ok"]

ExistsSync(f, path) == path = <<>> \/ \E i \in 1..Len(f) : f[i].path = path

EntryAt(f, path) ==
    IF path = <<>> THEN Dir(<<>>) ELSE f[CHOOSE i \in 1..Len(f) : f[i].path = path]

\* statSync succeeds
StatOk(f, path) == ExistsSync(f, path) /\ EntryAt(f, path).acc # "nostat"

ReaddirOkAlways(f, dir) == ExistsSync(f, dir)

\* readdirSync succeeds
ReaddirOk(f, dir) ==
    /\ ExistsSync(f, dir)
    /\ EntryAt(f, dir).kind = "dir"
    /\ EntryAt(f, dir).acc # "noread"

\* readdirSync: the names in dir, in directory order
RECURSIVE ReaddirFrom(_, _, _)
ReaddirFrom(f, dir, i) ==
    IF i > Len(f) THEN <<>>
    ELSE IF Len(f[i].path) = Len(dir) + 1 /\ IsPrefix(dir, f[i].path)
         THEN <<f[i].path[Len(f[i].path)]>> \o ReaddirFrom(f, dir, i + 1)
         ELSE ReaddirFrom(f, dir, i + 1)

ReaddirSync(f, dir) == ReaddirFrom(f, dir, 1)

\* readFileSync succeeds
ReadOk(f, path) ==
    ExistsSync(f, path) /\ EntryAt(f, path).kind = "file" /\ EntryAt(f, path).acc = "ok"

\* rmSync(path, {recursive: true})
RmSync(f, path) == SelectSeq(f, LAMBDA e : ~IsPrefix(path, e.path))

\* mkdirSync(path, {recursive: true})
RECURSIVE MkdirFrom(_, _, _)
MkdirFrom(f, path, n) ==
    IF n > Len(path) THEN f
    ELSE LET p == SubSeq(path, 1, n)
         IN  MkdirFrom(IF ExistsSync(f, p) THEN f ELSE Append(f, Dir(p)), path, n + 1)

MkdirSync(f, path) == MkdirFrom(f, path, 1)

(***************************************************************************)
(* TreeWalker and CodeSelector: server.ts:743-821 and 625-652.             *)
(***************************************************************************)
codeExtensions == {".js", ".ts", ".jsx", ".tsx", ".mjs", ".cjs", ".json"}

skipDirs == {".git", ".svn", ".hg", "node_modules", ".DS_Store", "__pycache__"}

\* server.ts:813-816
shouldSkipDirectory(dirName) == StartsWith(dirName, ".") \/ dirName \in skipDirs

\* server.ts:818-821
isCodeFile(fileName) == ToLowerCase(Extname(fileName)) \in codeExtensions

\* server.ts:795: the directories getAllFiles descends into
DescendsForListingAll(item) == TRUE

DescendsForListing(item) == ~StartsWith(item, ".")

DescendsForCodeAll(item) == TRUE

\* server.ts:756: the directories findCodeFiles descends into
DescendsForCode(item) == ~shouldSkipDirectory(item)

\* server.ts:785-807: walk of getAllFiles, the items of currentDir from i on
RECURSIVE WalkAllFrom(_, _, _, _)
WalkAllFrom(f, currentDir, items, i) ==
    IF i > Len(items) THEN <<>>
    ELSE LET item == items[i]
             fullPath == Append(currentDir, item)
             stat == EntryAt(f, fullPath)
             here ==
                 IF stat.acc = "nostat" THEN <<>>
                 ELSE IF stat.kind = "dir" /\ DescendsForListing(item)
                      THEN IF stat.acc # "noread"
                           THEN WalkAllFrom(f, fullPath, ReaddirSync(f, fullPath), 1)
                           ELSE <<>>
                 ELSE IF stat.kind = "file" THEN <<fullPath>>
                 ELSE <<>>
         IN  here \o WalkAllFrom(f, currentDir, items, i + 1)

\* server.ts:782-811
getAllFiles(f, dir) ==
    IF ReaddirOk(f, dir) THEN WalkAllFrom(f, dir, ReaddirSync(f, dir), 1) ELSE <<>>

\* server.ts:746-776: walk of findCodeFiles
RECURSIVE WalkCodeFrom(_, _, _, _)
WalkCodeFrom(f, currentDir, items, i) ==
    IF i > Len(items) THEN <<>>
    ELSE LET item == items[i]
             fullPath == Append(currentDir, item)
             stat == EntryAt(f, fullPath)
             here ==
                 IF stat.acc = "nostat" THEN <<>>
                 ELSE IF stat.kind = "dir" /\ DescendsForCode(item)
                      THEN IF stat.acc # "noread"
                           THEN WalkCodeFrom(f, fullPath, ReaddirSync(f, fullPath), 1)
                           ELSE <<>>
                 ELSE IF stat.kind = "file" /\ isCodeFile(item)
                      THEN IF stat.acc = "ok"
                           THEN <<[path |-> fullPath, content |-> stat.data]>>
                           ELSE <<>>
                 ELSE <<>>
         IN  here \o WalkCodeFrom(f, currentDir, items, i + 1)

\* server.ts:743-780
findCodeFiles(f, dir) ==
    IF ReaddirOk(f, dir) THEN WalkCodeFrom(f, dir, ReaddirSync(f, dir), 1) ELSE <<>>

maxFiles == 20

\* server.ts:633: the files getAllCodeFiles prints
FilesToShowAll(codeFiles) == codeFiles

FilesToShow(codeFiles) == Slice0(codeFiles, maxFiles)

\* server.ts:641-644: the notice of the files left out, or none
MoreNotice(codeFiles) ==
    IF Len(codeFiles) > maxFiles
    THEN [present |-> TRUE, more |-> Len(codeFiles) - maxFiles]
    ELSE [present |-> FALSE, more |-> 0]

\* server.ts:625-652: the text getAllCodeFiles returns
getAllCodeFiles(f, extractedPath, packageInfo) ==
    LET codeFiles == findCodeFiles(f, extractedPath)
        filesToShow == FilesToShow(codeFiles)
    IN  [package |-> packageInfo,
         found |-> Len(codeFiles),
         sections |-> [i \in 1..Len(filesToShow) |->
                         [relativePath |->
                              JoinSegs(PathRelative(extractedPath, filesToShow[i].path)),
                          content |-> filesToShow[i].content]],
         notice |-> MoreNotice(codeFiles)]

\* The order of UTF-16 code units among the characters the paths of the
\* model are made of.
CodeOrder == "-./0123456789@ABCDEFGHIJKLMNOPQRSTUVWXYZ_abcdefghijklmnopqrstuvwxyz"

CodeOf ==
    [c \in {CharAt(CodeOrder, i) : i \in 1..Len(CodeOrder)} |->
        CHOOSE i \in 1..Len(CodeOrder) : CharAt(CodeOrder, i) = c]

CharCode(c) == CodeOf[c]

\* a < b for strings, as Array.prototype.sort() without comparator orders them
RECURSIVE StringLessFrom(_, _, _)
StringLessFrom(a, b, i) ==
    IF i > Len(a) THEN i <= Len(b)
    ELSE IF i > Len(b) THEN FALSE
    ELSE IF CharAt(a, i) = CharAt(b, i) THEN StringLessFrom(a, b, i + 1)
    ELSE CharCode(CharAt(a, i)) < CharCode(CharAt(b, i))

StringLess(a, b) == StringLessFrom(a, b, 1)

RECURSIVE InsertString(_, _)
InsertString(sorted, x) ==
    IF sorted = <<>> THEN <<x>>
    ELSE IF StringLess(x, Head(sorted)) THEN <<x>> \o sorted
    ELSE <<Head(sorted)>> \o InsertString(Tail(sorted), x)

RECURSIVE SortStringsFrom(_, _)
SortStringsFrom(s, i) ==
    IF i = 0 THEN <<>> ELSE InsertString(SortStringsFrom(s, i - 1), s[i])

\* Array.prototype.sort()
SortStringsKeepingOrder(s) == s

SortStrings(s) == SortStringsFrom(s, Len(s))

\* server.ts:541-548: the text listPackageFiles returns for the files walked
ListText(allFiles, extractedPath, packageInfo) ==
    LET fileList == SortStrings([i \in 1..Len(allFiles) |->
                        JoinSegs(PathRelative(extractedPath, allFiles[i]))])
    IN  [package |-> packageInfo, total |-> Len(fileList), files |-> fileList]

\* server.ts:127, with __dirname the directory of the compiled server
dirname == <<"dist">>

tempDir == PathJoin(dirname, "temp")

(***************************************************************************)
(* Tool calls: errors and argument checks (server.ts:268-311, 497-502).    *)
(***************************************************************************)
\* A thrown error: an McpError with its code, or a plain Error.
McpError(code, message) == [mcp |-> TRUE, code |-> code, message |-> message]

PlainError(message) == [mcp |-> FALSE, code |-> "", message |-> message]

\* server.ts:287-295: the catch of the CallToolRequestSchema handler
HandlerCatchRewraps(error) ==
    McpError("InternalError", <<"Tool execution failed">> \o error.message)

HandlerCatch(error) ==
    IF error.mcp THEN error
    ELSE McpError("InternalError", <<"Tool execution failed">> \o error.message)

\* The message prefix of each operation's own catch (lines 522, 554, 595, 364).
FailedPrefix(name) ==
    IF name = "get_npm_package_code" THEN "Failed to fetch package code"
    ELSE IF name = "list_package_files" THEN "Failed to list package files"
    ELSE IF name = "get_package_info" THEN "Failed to get package info"
    ELSE "Failed to search packages"

\* server.ts:519-524 (and 551-556, 592-597, 361-366): the catch of an operation
OperationCatch(name, error) ==
    McpError("InternalError", <<FailedPrefix(name)>> \o error.message)

PackageTools == {"get_npm_package_code", "list_package_files", "get_package_info"}

ToolNames == PackageTools \cup {"search_npm_packages"}

\* server.ts:500 (and 530, 562): the packageName check, TRUE when it throws
PackageNameRejected(args) == Falsy(args.packageName) \/ ~IsString(args.packageName)

\* server.ts:302: the query check, TRUE when it throws
QueryRejected(args) ==
    Falsy(args.query) \/ ~IsString(args.query) \/ Len(Trim(args.query.s)) = 0

\* server.ts:300: the defaults of the destructuring
DefaultTo(v, d) == IF v.t = "undefined" THEN Num(d) ELSE v

DefaultSize == 20

DefaultFrom == 0

MaxSize == 250

\* server.ts:306: the size check, TRUE when it throws
SizeRejected(args) == DefaultTo(args.size, DefaultSize).n > MaxSize

(***************************************************************************)
(* The registry, as far as the server sees it.                             *)
(***************************************************************************)
\* The request fetchPackageInfo sends (server.ts:656-660).
MetadataGet(packageName, version) ==
    [endpoint |-> "metadata",
     url |-> <<encodeURIComponent(packageName),
               IF Falsy(version) THEN "latest" ELSE encodeURIComponent(version.s)>>]

\* The request downloadAndExtract sends (server.ts:705).
ArchiveGet(tarballUrl) == [endpoint |-> "archive", url |-> <<tarballUrl>>]

\* A response body of the metadata endpoint: text that parses as JSON or not,
\* with or without dist, dist.tarball and dist.shasum ("" when missing).
MetadataBody(parses, hasDist, tarball, shasum, version) ==
    [parses |-> parses, hasDist |-> hasDist, tarball |-> tarball, shasum |-> shasum,
     version |-> version]

MetadataBodies ==
    {MetadataBody(FALSE, FALSE, "", "", ""),
     MetadataBody(TRUE, FALSE, "", "", ""),
     MetadataBody(TRUE, TRUE, "", "sha", "1.0.0"),
     MetadataBody(TRUE, TRUE, "urlA", "sha", "1.0.0"),
     MetadataBody(TRUE, TRUE, "urlB", "", "2.0.0")}

ParsePackageInfoLenient(body) == [ok |-> TRUE, error |-> PlainError(<<>>), packageInfo |-> body]

\* server.ts:667-680: what fetchPackageInfo settles with on the end of a body
ParsePackageInfo(body) ==
    IF ~body.parses
    THEN [ok |-> FALSE, error |-> PlainError(<<"Invalid JSON response">>), packageInfo |-> body]
    ELSE IF ~body.hasDist \/ body.tarball = ""
    THEN [ok |-> FALSE,
          error |-> PlainError(<<"Invalid package info: missing tarball URL">>),
          packageInfo |-> body]
    ELSE [ok |-> TRUE, error |-> PlainError(<<>>), packageInfo |-> body]

\* What may settle a metadata request: the end of a body, a request error
\* (server.ts:683-685) or the timeout (server.ts:687-690).
MetadataOutcomes ==
    {ParsePackageInfo(b) : b \in MetadataBodies}
    \cup {[ok |-> FALSE, error |-> PlainError(<<"HTTP request failed">>),
           packageInfo |-> MetadataBody(FALSE, FALSE, "", "", "")],
          [ok |-> FALSE, error |-> PlainError(<<"Request timeout">>),
           packageInfo |-> MetadataBody(FALSE, FALSE, "", "", "")]}

\* An entry of a tar archive: a regular file at a path inside the archive.
TarFile(path, data) == [path |-> path, data |-> data]

\* The archives behind the two tarball URLs.
ArchiveA ==
    <<TarFile(<<"package", "a.js">>, "A:a.js"), TarFile(<<"package", "lib", "b.js">>, "A:b.js")>>

ArchiveB == <<TarFile(<<"package", "c.js">>, "B:c.js")>>

ArchiveAt(tarballUrl) == IF tarballUrl = "urlA" THEN ArchiveA ELSE ArchiveB

\* Status codes an archive request may be answered with.
StatusCodes == {200, 404}

(***************************************************************************)
(* ArchiveFetcher: downloadAndExtract, server.ts:694-741.                  *)
(***************************************************************************)
\* server.ts:695: packageName.replace(/[@\/]/g, '_')
RECURSIVE SanitizeFrom(_, _)
SanitizeFrom(s, i) ==
    IF i > Len(s) THEN ""
    ELSE (IF CharAt(s, i) \in {"@", "/"} THEN "_" ELSE CharAt(s, i)) \o SanitizeFrom(s, i + 1)

Sanitize(packageName) == SanitizeFrom(packageName, 1)

\* server.ts:696
ExtractPath(packageName) == PathJoin(tempDir, Sanitize(packageName))

\* server.ts:699-702: remove what is there, create the directory
KeepAndCreate(f, extractPath) == MkdirSync(f, extractPath)

CleanAndCreate(f, extractPath) ==
    MkdirSync(IF ExistsSync(f, extractPath) THEN RmSync(f, extractPath) ELSE f, extractPath)

StripNone(path) == path

\* tar.extract's strip option (server.ts:714): the path an entry is unpacked
\* to below cwd, <<>> when the entry has no segment left and is skipped
Strip1(path) == IF Len(path) <= 1 THEN <<>> ELSE Tail(path)

\* tar.extract unpacking one entry below cwd (server.ts:712-717): parent
\* directories are created, a file already at the path is replaced.
Unpack(f, cwd, entry) ==
    LET rel == Strip1(entry.path)
        target == cwd \o rel
    IN  IF rel = <<>> \/ ~ExistsSync(f, cwd) THEN f
        ELSE Append(RmSync(MkdirSync(f, SubSeq(target, 1, Len(target) - 1)), target),
                    File(target, entry.data))

(***************************************************************************)
(* CodeSelector.readOne: getSpecificFile, server.ts:600-623.               *)
(***************************************************************************)
\* stats.isFile()
IsFileAlways(f, path) == TRUE

IsFile(f, path) == EntryAt(f, path).kind = "file"

\* The file system calls of getSpecificFile, in order, and what it returns or
\* throws.
getSpecificFile(f, extractedPath, filePath) ==
    LET fullFilePath == PathJoin(extractedPath, filePath)
        exists == [fn |-> "existsSync", path |-> fullFilePath]
        stat == [fn |-> "statSync", path |-> fullFilePath]
        read == [fn |-> "readFileSync", path |-> fullFilePath]
    IN  IF ~ExistsSync(f, fullFilePath)
        THEN [ok |-> FALSE, error |-> PlainError(<<"File not found", filePath>>),
              content |-> "", calls |-> <<exists>>]
        ELSE IF ~StatOk(f, fullFilePath)
        THEN [ok |-> FALSE, error |-> PlainError(<<"stat failed">>),
              content |-> "", calls |-> <<exists, stat>>]
        ELSE IF ~IsFile(f, fullFilePath)
        THEN [ok |-> FALSE, error |-> PlainError(<<"Path is not a file", filePath>>),
              content |-> "", calls |-> <<exists, stat>>]
        ELSE IF ~ReadOk(f, fullFilePath)
        THEN [ok |-> FALSE, error |-> PlainError(<<"Failed to read file", filePath>>),
              content |-> "", calls |-> <<exists, stat, read>>]
        ELSE [ok |-> TRUE, error |-> PlainError(<<>>),
              content |-> EntryAt(f, fullFilePath).data, calls |-> <<exists, stat, read>>]

(***************************************************************************)
(* SpecWalk: the walkers applied to the directory trees of a bounded set.  *)
(***************************************************************************)
\* Number of numbered code files a tree may hold (the cap is maxFiles).
MaxCodeFiles == 22

WalkRoot == PathJoin(tempDir, "p")

At(rel) == WalkRoot \o rel

Unreadable(e) == [e EXCEPT !.acc = "noread"]

Unstatable(e) == [e EXCEPT !.acc = "nostat"]

\* The optional parts of a tree.
TreeParts ==
    <<  <<File(At(<<"index.js">>), "index")>>,
        <<File(At(<<"README.md">>), "readme"), Dir(At(<<"lib">>)),
          File(At(<<"lib", "util.TS">>), "util"), File(At(<<"lib", "notes.txt">>), "notes"),
          Dir(At(<<"lib", "v1.js">>)), File(At(<<"lib", "v1.js", "main.mjs">>), "main")>>,
        <<Dir(At(<<"node_modules">>)), File(At(<<"node_modules", "lib.js">>), "dep")>>,
        <<Dir(At(<<".git">>)), File(At(<<".git", "config.json">>), "git"),
          File(At(<<".eslintrc.json">>), "rc")>>,
        <<Dir(At(<<"__pycache__">>)), File(At(<<"__pycache__", "m.json">>), "pyc")>>,
        <<Unreadable(File(At(<<"bin.js">>), "bin")), Unreadable(Dir(At(<<"locked">>))),
          File(At(<<"locked", "x.js">>), "x"), Unstatable(File(At(<<"gone.js">>), "gone"))>>
    >>

NumberedFile(i) == File(At(<<"src", "f" \o ToString(i) \o ".js">>), "f" \o ToString(i))

RECURSIVE PartsFrom(_, _)
PartsFrom(chosen, i) ==
    IF i > Len(TreeParts) THEN <<>>
    ELSE (IF i \in chosen THEN TreeParts[i] ELSE <<>>) \o PartsFrom(chosen, i + 1)

Reverse(s) == [i \in 1..Len(s) |-> s[Len(s) + 1 - i]]

\* A tree: the sandbox root, n numbered code files in src/, the chosen parts,
\* listed in this or in the reverse order.
TreeOf(chosen, n, reversed) ==
    LET body == (IF n > 0 THEN <<Dir(At(<<"src">>))>> ELSE <<>>)
                \o [i \in 1..n |-> NumberedFile(i)]
                \o PartsFrom(chosen, 1)
    IN  MkdirSync(<<>>, WalkRoot) \o (IF reversed THEN Reverse(body) ELSE body)

\* The tree f with a sandbox root that cannot be listed.
LockRoot(f) == [i \in 1..Len(f) |-> IF f[i].path = WalkRoot THEN Unreadable(f[i]) ELSE f[i]]

WalkPackage == [name |-> "p", version |-> "1.0.0"]

InitWalk ==
    /\ \E chosen \in SUBSET (1..Len(TreeParts)) : \E n \in 0..MaxCodeFiles :
         \E reversed \in BOOLEAN : \E locked \in BOOLEAN :
            fs = IF locked THEN LockRoot(TreeOf(chosen, n, reversed))
                 ELSE TreeOf(chosen, n, reversed)
    /\ walkOut = NoWalk
    /\ toolReq = [r \in ToolReqs |-> IdleToolReq]
    /\ clock = 0
    /\ ticks = 0
    /\ popularPackagesCache = Null
    /\ popularPackagesCacheTime = 0
    /\ popReq = [r \in PopReqs |-> IdlePopReq]

\* listPackageFiles on the extracted tree (server.ts:539-548)
WalkList ==
    /\ walkOut.pc = "list"
    /\ LET allFiles == getAllFiles(fs, WalkRoot)
       IN  walkOut' = [walkOut EXCEPT
                          !.pc = "collect",
                          !.listed = <<[allFiles |-> allFiles,
                                        text |-> ListText(allFiles, WalkRoot, WalkPackage)]>>]
    /\ UNCHANGED <<fs, cacheVars, toolReq>>

\* getAllCodeFiles on the extracted tree (server.ts:625-652)
WalkCollect ==
    /\ walkOut.pc = "collect"
    /\ walkOut' = [walkOut EXCEPT !.pc = "done",
                                  !.collected = <<getAllCodeFiles(fs, WalkRoot, WalkPackage)>>]
    /\ UNCHANGED <<fs, cacheVars, toolReq>>

NextWalk == WalkList \/ WalkCollect

SpecWalk == InitWalk /\ [][NextWalk]_vars

(***************************************************************************)
(* The steps of the tool handlers (server.ts:268-598, 694-741).            *)
(***************************************************************************)
\* The call ends with an error thrown out of the operation.
Throw(me, error) == [me EXCEPT !.pc = "done", !.response = Failure(HandlerCatch(error))]

Return(me, text) == [me EXCEPT !.pc = "done", !.response = Result(text)]

\* server.ts:497-503 (527-533, 559-565, 299-311) with the dispatch of lines
\* 269-286: a call up to its first suspension point.
CallTool(r, name, args) ==
    /\ toolReq[r].pc = "idle"
    /\ \A q \in ToolReqs : q < r => toolReq[q].pc # "idle"
    /\ LET me == [IdleToolReq EXCEPT !.name = name, !.args = args]
       IN  toolReq' = [toolReq EXCEPT ![r] =
             IF name \notin ToolNames
             THEN Throw(me, McpError("MethodNotFound", <<"Unknown tool", name>>))
             ELSE IF ~args.given
             THEN \* destructuring undefined throws a TypeError
                  Throw(me, PlainError(<<"Cannot destructure property of undefined">>))
             ELSE IF name \in PackageTools
             THEN IF PackageNameRejected(args)
                  THEN Throw(me, McpError("InvalidParams",
                                   <<"packageName is required and must be a string">>))
                  ELSE [me EXCEPT !.pc = "meta",
                                  !.gets = <<MetadataGet(args.packageName.s, args.version)>>]
             ELSE IF QueryRejected(args)
                  THEN Throw(me, McpError("InvalidParams",
                                   <<"query is required and must be a non-empty string">>))
                  ELSE IF SizeRejected(args)
                  THEN Throw(me, McpError("InvalidParams", <<"size cannot exceed 250">>))
                  ELSE [me EXCEPT !.pc = "search",
                                  !.gets = <<SearchGet(Trim(args.query.s),
                                                       DefaultTo(args.size, DefaultSize).n,
                                                       DefaultTo(args.from, DefaultFrom).n)>>]]
    /\ UNCHANGED <<fs, cacheVars, walkOut>>

\* server.ts:311-366: searchNpmPackages after the awaited search
ToolSearchSettles(r, outcome) ==
    /\ toolReq[r].pc = "search"
    /\ LET me == toolReq[r]
       IN  toolReq' = [toolReq EXCEPT ![r] =
             IF outcome.ok
             THEN Return(me, [query |-> me.args.query.s,
                              showing |-> Len(outcome.objects),
                              from |-> DefaultTo(me.args.from, DefaultFrom).n,
                              names |-> [i \in 1..Len(outcome.objects) |->
                                            outcome.objects[i].name]])
             ELSE Throw(me, OperationCatch(me.name, PlainError(<<outcome.error>>)))]
    /\ UNCHANGED <<fs, cacheVars, walkOut>>

\* The call is over and no stage of its pipeline can act any more.
Finished(me) ==
    /\ me.pc = "done"
    /\ me.written = me.handed
    /\ me.stage = "piping" => me.socket # "open"

\* server.ts:569-591: the text of getPackageInfo
InfoText(packageInfo) ==
    [version |-> packageInfo.version, tarball |-> packageInfo.tarball,
     shasum |-> packageInfo.shasum]

\* server.ts:506-510 (535-538, 567): after the awaited fetchPackageInfo; for the
\* two extracting tools this runs downloadAndExtract up to its promise
\* (server.ts:695-705): sanitize, clean, create, send the archive request.
MetaSettles(r, outcome) ==
    /\ toolReq[r].pc = "meta"
    /\ LET me == toolReq[r]
           extractPath == ExtractPath(me.args.packageName.s)
       IN  IF ~outcome.ok
           THEN /\ toolReq' = [toolReq EXCEPT ![r] =
                      Throw(me, OperationCatch(me.name, outcome.error))]
                /\ fs' = fs
           ELSE IF me.name = "get_package_info"
           THEN /\ toolReq' = [toolReq EXCEPT ![r] =
                      Return([me EXCEPT !.packageInfo = outcome.packageInfo],
                             InfoText(outcome.packageInfo))]
                /\ fs' = fs
           ELSE /\ fs' = CleanAndCreate(fs, extractPath)
                /\ toolReq' = [toolReq EXCEPT ![r] =
                      [me EXCEPT !.pc = "download",
                                 !.packageInfo = outcome.packageInfo,
                                 !.extractPath = extractPath,
                                 !.gets = Append(me.gets, ArchiveGet(outcome.packageInfo.tarball)),
                                 !.archive = ArchiveAt(outcome.packageInfo.tarball),
                                 !.stage = "sent", !.socket = "open",
                                 !.finishedBefore =
                                     {q \in ToolReqs : Finished(toolReq[q])}]]
    /\ UNCHANGED <<cacheVars, walkOut>>

\* server.ts:512-518 and 539-550: what follows the awaited downloadAndExtract
\* when it resolves with extractedPath, on the file system f.
AfterExtraction(me, f, extractedPath) ==
    IF me.name = "list_package_files"
    THEN Return(me, ListText(getAllFiles(f, extractedPath), extractedPath, me.packageInfo))
    ELSE IF ~Falsy(me.args.filePath)
    THEN LET got == getSpecificFile(f, extractedPath, me.args.filePath.s)
             seen == [me EXCEPT !.fsCalls = got.calls]
         IN  IF got.ok
             THEN Return(seen, [file |-> me.args.filePath.s, content |-> got.content])
             ELSE Throw(seen, OperationCatch(me.name, got.error))
    ELSE Return(me, getAllCodeFiles(f, extractedPath, me.packageInfo))

\* The promise of downloadAndExtract is resolved or rejected; only the first
\* settlement has an effect, and the handler goes on from its await at once.
Resolved(me, f) ==
    IF me.pc = "download" THEN AfterExtraction(me, f, me.extractPath) ELSE me

Rejected(me, message) ==
    IF me.pc = "download"
    THEN Throw(me, OperationCatch(me.name, PlainError(message)))
    ELSE me

\* server.ts:706: the status test
StatusAcceptedAlways(status) == TRUE

StatusAccepted(status) == status = 200

\* server.ts:705-717: the response to the archive request arrives
DownloadResponse(r, status) ==
    /\ toolReq[r].stage = "sent" /\ toolReq[r].socket = "open"
    /\ LET me == toolReq[r]
       IN  toolReq' = [toolReq EXCEPT ![r] =
             IF StatusAccepted(status)
             THEN [me EXCEPT !.stage = "piping", !.status = status, !.idle = 0]
             ELSE Rejected([me EXCEPT !.stage = "nopipe", !.status = status, !.idle = 0],
                           <<"HTTP " \o ToString(status), "Failed to download tarball">>)]
    /\ UNCHANGED <<fs, cacheVars, walkOut>>

\* server.ts:717: body data passes the decompression stage and reaches the
\* unpack stage, one archive entry at a time
DataArrives(r) ==
    /\ toolReq[r].stage = "piping" /\ toolReq[r].socket = "open"
    /\ toolReq[r].handed < Len(toolReq[r].archive)
    /\ toolReq' = [toolReq EXCEPT ![r].handed = @ + 1, ![r].idle = 0]
    /\ UNCHANGED <<fs, cacheVars, walkOut>>

\* server.ts:712-717: the unpack stage writes an entry it has received; it
\* does so whether or not the promise has been rejected meanwhile
WriteEntry(r) ==
    /\ toolReq[r].written < toolReq[r].handed
    /\ fs' = Unpack(fs, toolReq[r].extractPath, toolReq[r].archive[toolReq[r].written + 1])
    /\ toolReq' = [toolReq EXCEPT ![r].written = @ + 1]
    /\ UNCHANGED <<cacheVars, walkOut>>

\* The message each emitter's 'error' listener rejects with (server.ts:723-734).
ErrorMessage(emitter) ==
    IF emitter = "gunzip" THEN "Decompression failed"
    ELSE IF emitter = "extract" THEN "Extraction failed"
    ELSE "Download failed"

\* server.ts:727-729: the decompression stage emits 'error'
GunzipError(r) ==
    /\ toolReq[r].stage = "piping" /\ toolReq[r].socket = "open"
    /\ toolReq' = [toolReq EXCEPT ![r] =
          Rejected([@ EXCEPT !.stage = "broken", !.reported = Append(@, "gunzip")],
                   <<ErrorMessage("gunzip")>>)]
    /\ UNCHANGED <<fs, cacheVars, walkOut>>

\* server.ts:723-725: the unpack stage emits 'error'
ExtractError(r) ==
    /\ toolReq[r].stage = "piping" /\ toolReq[r].handed > 0
    /\ toolReq' = [toolReq EXCEPT ![r] =
          Rejected([@ EXCEPT !.stage = "broken", !.reported = Append(@, "extract")],
                   <<ErrorMessage("extract")>>)]
    /\ UNCHANGED <<fs, cacheVars, walkOut>>

ExtractEndEarly(r) ==
    /\ toolReq[r].stage = "piping" /\ toolReq[r].socket = "open"
    /\ toolReq' = [toolReq EXCEPT ![r] =
          Resolved([@ EXCEPT !.stage = "ended", !.socket = "released", !.idle = 0], fs)]
    /\ UNCHANGED <<fs, cacheVars, walkOut>>

\* server.ts:719-721: the body has ended, every entry is written, the unpack
\* stage emits 'end'
ExtractEnd(r) ==
    /\ toolReq[r].stage = "piping" /\ toolReq[r].socket = "open"
    /\ toolReq[r].handed = Len(toolReq[r].archive)
    /\ toolReq[r].written = toolReq[r].handed
    /\ toolReq' = [toolReq EXCEPT ![r] =
          Resolved([@ EXCEPT !.stage = "ended", !.socket = "released", !.idle = 0], fs)]
    /\ UNCHANGED <<fs, cacheVars, walkOut>>

\* server.ts:732-734: the archive request emits 'error' (transport failure)
RequestError(r) ==
    /\ toolReq[r].socket = "open"
    /\ toolReq' = [toolReq EXCEPT ![r] =
          Rejected([@ EXCEPT !.socket = "closed", !.idle = 0,
                             !.reported = Append(@, "request")],
                   <<ErrorMessage("request")>>)]
    /\ UNCHANGED <<fs, cacheVars, walkOut>>

\* server.ts:736: the delay given to request.setTimeout, in ms
DownloadTimeoutMs == 30000

\* The open socket of the archive request of call r stays silent for d ms,
\* less than what is left until the socket timeout is due.
TimePasses(r, d) ==
    /\ toolReq[r].socket = "open"
    /\ toolReq[r].idle + d < DownloadTimeoutMs
    /\ toolReq' = [toolReq EXCEPT ![r].idle = @ + d,
                                  ![r].elapsed = Min(@ + d, MaxElapsed)]
    /\ UNCHANGED <<fs, cacheVars, walkOut>>

\* server.ts:736-739: the open socket of the archive request stays silent
\* until it has been idle for 30 s; then the callback of setTimeout runs
DownloadTimeout(r) ==
    /\ toolReq[r].socket = "open"
    /\ toolReq' = [toolReq EXCEPT ![r] =
          Rejected([@ EXCEPT !.socket = "closed", !.idle = 0,
                             !.elapsed = Min(@ + DownloadTimeoutMs - toolReq[r].idle,
                                             MaxElapsed)],
                   <<"Download timeout">>)]
    /\ UNCHANGED <<fs, cacheVars, walkOut>>

\* The peer closes the connection before the body is complete: the response
\* is closed without 'end' and without an 'error' event on the request, and
\* no listener of downloadAndExtract runs.
ConnectionCloses(r) ==
    /\ toolReq[r].socket = "open"
    /\ toolReq[r].stage \in {"piping", "nopipe", "broken"}
    /\ toolReq[r].stage = "piping" => toolReq[r].handed < Len(toolReq[r].archive)
    /\ toolReq' = [toolReq EXCEPT ![r].socket = "closed", ![r].idle = 0]
    /\ UNCHANGED <<fs, cacheVars, walkOut>>

\* The installation: the compiled server and the temp directory that the
\* constructor has created (server.ts:127, 145-149).
InstallTree ==
    MkdirSync(<<Dir(dirname), File(Append(dirname, "server.js"), "server")>>, tempDir)

InitTool ==
    /\ fs = InstallTree
    /\ toolReq = [r \in ToolReqs |-> IdleToolReq]
    /\ walkOut = NoWalk
    /\ clock = 0
    /\ ticks = 0
    /\ popularPackagesCache = Null
    /\ popularPackagesCacheTime = 0
    /\ popReq = [r \in PopReqs |-> IdlePopReq]

\* The steps of the calls in R, made with the calls of the set Calls.
ToolNext(R, Calls) ==
    \E r \in R :
        \/ \E c \in Calls : CallTool(r, c.name, c.args)
        \/ \E outcome \in MetadataOutcomes : MetaSettles(r, outcome)
        \/ \E outcome \in SearchOutcomes : ToolSearchSettles(r, outcome)
        \/ \E status \in StatusCodes : DownloadResponse(r, status)
        \/ DataArrives(r)
        \/ WriteEntry(r)
        \/ GunzipError(r)
        \/ ExtractError(r)
        \/ ExtractEnd(r)
        \/ RequestError(r)
        \/ DownloadTimeout(r)
        \/ ConnectionCloses(r)

Call(name, args) == [name |-> name, args |-> args]

\* SpecTool: two calls, overlapping or one after the other: the extracting
\* tools for the package names "p" and "@p", and one search.
ConcurrentCalls ==
    {Call(name, PackageArgs(Str(p), Undefined, Undefined)) :
        name \in {"get_npm_package_code", "list_package_files"}, p \in {"p", "@p"}}
    \cup {Call("search_npm_packages", SearchArgs(Str("a"), Undefined, Undefined))}

SpecTool == InitTool /\ [][ToolNext(ToolReqs, ConcurrentCalls)]_vars

\* SpecCall: one call of any tool with any arguments.
PackageNameValues == {Undefined, Str(""), Num(7), Str("p"), Str("@s/p")}

VersionValues == {Undefined, Str("1.0.0")}

FilePathValues ==
    {Undefined, Str(""), Str("a.js"), Str("lib"), Str("lib/b.js"), Str("missing.js"),
     Str("../../server.js"), Str("/a.js"), Str("lib/../a.js"), Str("..")}

QueryValues == {Undefined, Num(7), Str(""), Str("  "), Str(" a b ")}

SizeValues == {Undefined, Num(0), Num(250), Num(251), Num(300)}

FromValues == {Undefined, Num(0), Num(5), Num(-1)}

AllCalls ==
    {Call(name, NoArguments) : name \in ToolNames \cup {"unknown_tool"}}
    \cup {Call(name, PackageArgs(p, v, Undefined)) :
            name \in {"list_package_files", "get_package_info"},
            p \in PackageNameValues, v \in VersionValues}
    \cup {Call("get_npm_package_code", PackageArgs(p, Undefined, f)) :
            p \in PackageNameValues, f \in FilePathValues}
    \cup {Call("search_npm_packages", SearchArgs(q, s, f)) :
            q \in QueryValues, s \in SizeValues, f \in FromValues}

SpecCall == InitTool /\ [][ToolNext({1}, AllCalls)]_vars

\* SpecTime: one call, with the time that passes between its steps.
TimeSteps == {10000, 20000}

NextTime == ToolNext({1}, ConcurrentCalls) \/ \E d \in TimeSteps : TimePasses(1, d)

SpecTime == InitTool /\ [][NextTime]_vars

\* SpecServer: one tool call and one popularity request side by side.
NextServer ==
    \/ ToolNext({1}, ConcurrentCalls \cup {Call("get_package_info", PackageArgs(Str("p"), Undefined, Undefined))})
    \/ GetPopularPackages(1)
    \/ \E outcome \in SearchOutcomes : SeedSearchSettles(1, outcome)

SpecServer == InitTool /\ [][NextServer]_vars

\* Events that reach a listener of a request whose promise is already
\* settled are counted up to this.
MaxLate == 2

LateSettlementOverrides(me, changed) == changed

\* server.ts:465, 655, 704: resolve and reject of a settled promise do nothing
LateSettlement(me, changed) == me

\* server.ts:667-690: a listener of the metadata request runs after the
\* promise of fetchPackageInfo has been settled (the end of the body, the
\* 'error' of the destroyed request, the timeout)
LateMetadataEvent(r, outcome) ==
    /\ toolReq[r].name \in PackageTools
    /\ toolReq[r].pc \notin {"idle", "meta"} /\ toolReq[r].gets # <<>>
    /\ toolReq[r].late < MaxLate
    /\ LET me == [toolReq[r] EXCEPT !.late = @ + 1]
       IN  toolReq' = [toolReq EXCEPT ![r] =
              LateSettlement(me,
                 IF outcome.ok THEN [me EXCEPT !.packageInfo = outcome.packageInfo]
                 ELSE Throw(me, OperationCatch(me.name, outcome.error)))]
    /\ UNCHANGED <<fs, cacheVars, walkOut>>

\* server.ts:476-493: a listener of the search request runs after the promise
\* of performPackageSearch has been settled
LateSearchEvent(r, outcome) ==
    /\ toolReq[r].name = "search_npm_packages"
    /\ toolReq[r].pc = "done" /\ toolReq[r].gets # <<>>
    /\ toolReq[r].late < MaxLate
    /\ LET me == [toolReq[r] EXCEPT !.late = @ + 1]
       IN  toolReq' = [toolReq EXCEPT ![r] =
              LateSettlement(me,
                 IF outcome.ok THEN Return(me, [query |-> me.args.query.s, late |-> outcome.objects])
                 ELSE Throw(me, OperationCatch(me.name, PlainError(<<outcome.error>>))))]
    /\ UNCHANGED <<fs, cacheVars, walkOut>>

\* server.ts:732-738: the archive request that the timeout callback destroyed
\* before any response emits 'error' (socket hang up)
DestroyedRequestError(r) ==
    /\ toolReq[r].socket = "closed" /\ toolReq[r].stage = "sent"
    /\ toolReq[r].reported = <<>>
    /\ toolReq' = [toolReq EXCEPT ![r] =
          Rejected([@ EXCEPT !.reported = Append(@, "request")], <<ErrorMessage("request")>>)]
    /\ UNCHANGED <<fs, cacheVars, walkOut>>

\* SpecOnce: one tool call with the events that follow the settlement of its
\* requests; every callback that is due runs.
NextOnce ==
    \/ ToolNext({1}, ConcurrentCalls
                     \cup {Call("get_package_info", PackageArgs(Str("p"), Undefined, Undefined))})
    \/ \E outcome \in MetadataOutcomes : LateMetadataEvent(1, outcome)
    \/ \E outcome \in SearchOutcomes : LateSearchEvent(1, outcome)
    \/ DestroyedRequestError(1)

SpecOnce == InitTool /\ [][NextOnce]_vars /\ WF_vars(NextOnce)

\* SpecNames: two list_package_files calls, overlapping or one after the
\* other, for package names that the check of line 500 accepts: a plain name,
\* '.' and '..'; and one search.
SandboxNames == {"p", ".", ".."}

NameCalls ==
    {Call("list_package_files", PackageArgs(Str(n), Undefined, Undefined)) : n \in SandboxNames}
    \cup {Call("search_npm_packages", SearchArgs(Str("a"), Undefined, Undefined))}

SpecNames == InitTool /\ [][ToolNext(ToolReqs, NameCalls)]_vars

\* SpecSettle: one extracting call; the event loop runs every callback that is
\* due, so a step that stays possible is eventually taken.
NextSettle == ToolNext({1}, ConcurrentCalls)

SpecSettle == InitTool /\ [][NextSettle]_vars /\ WF_vars(NextSettle)

\* SpecUnpack: one list_package_files call from the moment downloadAndExtract
\* has cleaned the sandbox and sent the archive request (server.ts:695-705),
\* for any archive whose entries lie under one wrapper directory.
Wrappers == {"package", "pkg"}

Rests == {<<"a.js">>, <<"b.md">>, <<".x">>, <<"lib", "b.js">>, <<"package", "x.js">>}

MaxEntries == 3

WrappedArchives ==
    {archive \in UNION {[1..n -> {TarFile(<<w>> \o rest, JoinSegs(rest)) : rest \in Rests}] :
                          n \in 1..MaxEntries, w \in Wrappers} :
        \A i, j \in 1..Len(archive) : archive[i] = archive[j] => i = j}

Downloading(archive) ==
    [IdleToolReq EXCEPT
        !.pc = "download", !.name = "list_package_files",
        !.args = PackageArgs(Str("p"), Undefined, Undefined),
        !.packageInfo = MetadataBody(TRUE, TRUE, "urlA", "sha", "1.0.0"),
        !.extractPath = ExtractPath("p"),
        !.gets = <<MetadataGet("p", Undefined), ArchiveGet("urlA")>>,
        !.archive = archive, !.stage = "sent", !.socket = "open"]

InitUnpack ==
    /\ fs = CleanAndCreate(InstallTree, ExtractPath("p"))
    /\ \E archive \in WrappedArchives :
          toolReq = [r \in ToolReqs |-> IF r = 1 THEN Downloading(archive) ELSE IdleToolReq]
    /\ walkOut = NoWalk
    /\ clock = 0
    /\ ticks = 0
    /\ popularPackagesCache = Null
    /\ popularPackagesCacheTime = 0
    /\ popReq = [r \in PopReqs |-> IdlePopReq]

NextUnpack ==
    \/ \E status \in StatusCodes : DownloadResponse(1, status)
    \/ DataArrives(1)
    \/ WriteEntry(1)
    \/ ExtractEnd(1)

SpecUnpack == InitUnpack /\ [][NextUnpack]_vars

(***************************************************************************)
(* Claims about the popularity cache, checked under SpecCache.             *)
(***************************************************************************)
\* The step in which call r of getPopularPackages is made.
PopCallMade(r) == popReq[r].pc = "idle" /\ popReq'[r].pc # "idle"

\* C1: a popularity request made while the slot holds an entry of age
\* strictly below the 24-hour TTL returns exactly the stored digest, issues no
\* search and leaves the digest and the timestamp of the slot unchanged.
C1_FreshEntryIsServed ==
    [][\A r \in PopReqs :
         ( /\ PopCallMade(r)
           /\ popularPackagesCache # Null
           /\ clock - popularPackagesCacheTime < CACHE_DURATION )
         => /\ popReq'[r].pc = "done"
            /\ popReq'[r].result = popularPackagesCache
            /\ popReq'[r].log = <<>>
            /\ popularPackagesCache' = popularPackagesCache
            /\ popularPackagesCacheTime' = popularPackagesCacheTime]_vars

\* C1 witness: the second call was served the stored digest at age TTL - 1.
C1_Witness ==
    /\ popReq[1].pc = "done" /\ popReq[1].log # <<>>
    /\ popReq[2].pc = "done" /\ popReq[2].log = <<>>
    /\ popReq[2].result = popReq[1].result
    /\ popReq[2].now - popularPackagesCacheTime = CACHE_DURATION - 1

\* C2: a popularity request made when the slot is empty or holds an entry of
\* age at least the TTL (age = TTL included) is not answered from the slot: it
\* issues the seed searches, one per seed term, and returns (and stores) the
\* digest it formats itself from its own hits when the last search has settled.
C2_StaleEntryIsRecomputed ==
    [][\A r \in PopReqs :
         /\ ( /\ PopCallMade(r)
              /\ \/ popularPackagesCache = Null
                 \/ clock - popularPackagesCacheTime >= CACHE_DURATION )
            => /\ popReq'[r].pc = "searching"
               /\ popReq'[r].result = Null
               /\ popReq'[r].log = <<SearchGet(SeedTerms[1], SeedSize, SeedFrom)>>
         /\ ( popReq[r].pc = "searching" /\ popReq'[r].pc = "done" )
            => /\ Len(popReq[r].log) = SeedLimit
               /\ popReq'[r].log = popReq[r].log
               /\ popReq'[r].result = FormatDigest(popReq'[r].packageDetails, clock)
               /\ Range(popReq'[r].packageDetails) \subseteq
                    UNION {Range(o.objects) : o \in SearchOutcomes}
               /\ popularPackagesCache' = popReq'[r].result]_vars

\* C2 witness: the first call stored an entry at time 0 and had returned before
\* the second call was made at age exactly TTL; the second call recomputed.
C2_Witness ==
    /\ popReq[1].pc = "done" /\ popReq[1].log # <<>> /\ popReq[1].now = 0
    /\ popReq[1].result[2].at < popReq[2].now
    /\ popReq[2].now = CACHE_DURATION
    /\ popReq[2].pc = "done" /\ Len(popReq[2].log) = SeedLimit
    /\ popReq[2].result # popReq[1].result

(***************************************************************************)
(* Claims about the walkers, checked under SpecWalk.                       *)
(***************************************************************************)
\* The names of the directories between the walked root and the file at path.
AncestorNames(path) == {path[k] : k \in (Len(WalkRoot) + 1)..(Len(path) - 1)}

ListedFiles == IF walkOut.listed = <<>> THEN {} ELSE Range(walkOut.listed[1].allFiles)

CodeCandidates ==
    {i \in 1..Len(fs) :
        /\ fs[i].kind = "file" /\ fs[i].acc = "ok"
        /\ isCodeFile(fs[i].path[Len(fs[i].path)])
        /\ IsPrefix(WalkRoot, fs[i].path)
        /\ EntryAt(fs, WalkRoot).acc = "ok"
        /\ \A k \in (Len(WalkRoot) + 1)..(Len(fs[i].path) - 1) :
             /\ ~shouldSkipDirectory(fs[i].path[k])
             /\ EntryAt(fs, SubSeq(fs[i].path, 1, k)).acc = "ok"}

\* C7: for a tree with n readable allow-listed code files, collect returns
\* min(n, 20) files, the first 20 in traversal order, reports the total n, and
\* reports the excess n - 20 exactly when n > 20.
C7_CollectCapsAtTwenty ==
    walkOut.collected # <<>> =>
        LET out == walkOut.collected[1]
            n == Cardinality(CodeCandidates)
            traversal == findCodeFiles(fs, WalkRoot)
        IN  /\ out.found = n
            /\ Len(out.sections) = Min(n, 20)
            /\ \A i \in 1..Len(out.sections) :
                 /\ out.sections[i].relativePath =
                      JoinSegs(PathRelative(WalkRoot, traversal[i].path))
                 /\ out.sections[i].content = traversal[i].content
            /\ out.notice.present <=> n > 20
            /\ out.notice.present => out.notice.more = n - 20

\* C7 witness: more than 20 candidates were collected, with files that are
\* not candidates in the tree.
C7_Witness ==
    /\ walkOut.collected # <<>>
    /\ walkOut.collected[1].found > 20
    /\ Len(walkOut.collected[1].sections) = 20
    /\ walkOut.collected[1].notice = [present |-> TRUE, more |-> walkOut.collected[1].found - 20]
    /\ ExistsSync(fs, At(<<"bin.js">>))
    /\ ExistsSync(fs, At(<<"node_modules", "lib.js">>))

(***************************************************************************)
(* Claims about the tool calls (SpecCall, SpecTool).                       *)
(***************************************************************************)
ExtractingTools == {"get_npm_package_code", "list_package_files"}

\* The arguments of a call violate the contract of its operation.
ArgumentViolation(me) ==
    \/ me.name \in PackageTools
       /\ (me.args.packageName.t # "string" \/ me.args.packageName.s = "")
    \/ me.name = "search_npm_packages"
       /\ \/ me.args.query.t # "string"
          \/ Trim(me.args.query.s) = ""
          \/ me.args.size.t = "number" /\ me.args.size.n > 250

\* C3: a call whose arguments violate the contract (packageName missing, empty
\* or not a string; query missing, not a string or blank; size above 250) is
\* answered with an InvalidParams error, has issued no GET and has left the
\* file system as it was.
C3_ViolationFailsInvalidParams ==
    \A r \in ToolReqs :
        toolReq[r].pc # "idle" /\ ArgumentViolation(toolReq[r]) =>
            /\ toolReq[r].pc = "done"
            /\ toolReq[r].response.kind = "error"
            /\ toolReq[r].response.error.code = "InvalidParams"
            /\ toolReq[r].gets = <<>>
            /\ fs = InstallTree

\* The entries of the file system f at or below the directory root.
Under(f, root) == {f[i] : i \in {j \in 1..Len(f) : IsPrefix(root, f[j].path)}}

RECURSIVE UnpackAll(_, _, _, _)
UnpackAll(f, cwd, archive, n) ==
    IF n = 0 THEN f ELSE Unpack(UnpackAll(f, cwd, archive, n - 1), cwd, archive[n])

\* The file system a call would read from had it run alone: its sandbox
\* cleaned, then the first n entries of its archive unpacked.
AloneFs(me, n) == UnpackAll(CleanAndCreate(InstallTree, me.extractPath), me.extractPath, me.archive, n)

\* C4: whatever the interleaving, a getPackageCode/listPackageFiles call that
\* returns a result has read exactly the entries of the archive it downloaded:
\* its result is the one it gives when it runs alone.
C4_ReadsItsOwnArchive ==
    \A r \in ToolReqs :
        LET me == toolReq[r]
        IN  me.pc = "done" /\ me.name \in ExtractingTools /\ me.response.kind = "result" =>
                me.response =
                    AfterExtraction([me EXCEPT !.pc = "download", !.response = NoResponse],
                                    AloneFs(me, Len(me.archive)), me.extractPath).response

\* The call `later` ran its clean step for the sandbox of the call `earlier`
\* after `earlier` had finished.
RanAfter(later, earlier) ==
    /\ later # earlier
    /\ toolReq[later].stage # "none" /\ toolReq[earlier].stage # "none"
    /\ earlier \in toolReq[later].finishedBefore
    /\ toolReq[later].extractPath = toolReq[earlier].extractPath

\* C5: when a fetchAndExtract for a name runs after an earlier one for the same
\* name has finished, then from its clean step on the sandbox holds nothing but
\* what the second call has unpacked so far: nothing of the first run, and
\* after success exactly the unpacked files of the second archive.
C5_NoResidueOfEarlierRun ==
    \A later, earlier \in ToolReqs :
        RanAfter(later, earlier) =>
            Under(fs, toolReq[later].extractPath)
                = Under(AloneFs(toolReq[later], toolReq[later].written), toolReq[later].extractPath)

C5_Witness ==
    /\ RanAfter(2, 1)
    /\ toolReq[1].archive = ArchiveA /\ toolReq[1].written = 2
    /\ toolReq[2].archive = ArchiveB
    /\ toolReq[2].pc = "done" /\ toolReq[2].response.kind = "result"
    /\ Under(fs, toolReq[2].extractPath)
         = {Dir(toolReq[2].extractPath), File(Append(toolReq[2].extractPath, "c.js"), "B:c.js")}

\* A single-file request that got as far as getSpecificFile.
ReadOneCalls ==
    {r \in ToolReqs : toolReq[r].pc = "done" /\ toolReq[r].fsCalls # <<>>}

\* filePath names its target segment by segment: no empty, "." or ".." segment.
PlainRelative(filePath) ==
    /\ filePath # "" /\ CharAt(filePath, 1) # "/"
    /\ \A i \in 1..Len(SplitPath(filePath)) : SplitPath(filePath)[i] \notin {"", ".", ".."}

\* The message of the error a call was answered with contains the text.
FailsWith(me, text) ==
    /\ me.response.kind = "error"
    /\ \E i \in 1..Len(me.response.error.message) : me.response.error.message[i] = text

\* C8: getSpecificFile on a relative path that does not exist under the root
\* fails with "File not found"; on a path that is a directory it fails with
\* "Path is not a file" and not with "File not found"; it yields content, the
\* content of that file, only for an existing regular file.
C8_NotFoundVersusNotAFile ==
    \A r \in ReadOneCalls :
        LET me == toolReq[r]
            target == me.extractPath \o SplitPath(me.args.filePath.s)
            there == {e \in Under(fs, me.extractPath) : e.path = target}
        IN  PlainRelative(me.args.filePath.s) =>
              /\ there = {} => FailsWith(me, "File not found")
              /\ (\E e \in there : e.kind = "dir") =>
                    FailsWith(me, "Path is not a file") /\ ~FailsWith(me, "File not found")
              /\ me.response.kind = "result" =>
                    \E e \in there : e.kind = "file" /\ me.response.text.content = e.data

C8_Witness ==
    /\ \E r \in ReadOneCalls :
          toolReq[r].args.filePath.s = "lib" /\ FailsWith(toolReq[r], "Path is not a file")
    /\ ExistsSync(fs, ExtractPath("p") \o <<"lib">>)

\* C9: for every filePath, getSpecificFile tests, stats and reads only paths
\* at or below the sandbox root of the call.
C9_StaysInsideSandbox ==
    \A r \in ToolReqs :
        \A i \in 1..Len(toolReq[r].fsCalls) :
            IsPrefix(toolReq[r].extractPath, toolReq[r].fsCalls[i].path)

\* The error an extracting call is answered with when its fetchAndExtract is
\* rejected with the message.
RejectedWith(me, message) ==
    me.pc = "done"
    /\ me.response
        = Failure(McpError("InternalError", <<FailedPrefix(me.name)>> \o message))

\* The message of each stage's failure kind.
KindOf(emitter) ==
    CASE emitter = "request" -> "Download failed"
      [] emitter = "gunzip" -> "Decompression failed"
      [] emitter = "extract" -> "Extraction failed"

\* C10: in every step of a fetchAndExtract call: a stage that reports an error
\* while the call is pending rejects it with the kind of that stage; a status
\* other than 200 rejects it as a download failure with nothing handed to the
\* later stages and nothing written; and the call does not resolve once a
\* stage has reported an error.
C10_StageFailureRejectsWithItsKind ==
    [][\A r \in ToolReqs :
          LET me == toolReq[r]
              after == toolReq'[r]
          IN  /\ me.pc = "download" /\ Len(after.reported) > Len(me.reported) =>
                    RejectedWith(after, <<KindOf(after.reported[Len(after.reported)])>>)
              /\ after.status \notin {0, 200} =>
                    /\ RejectedWith(after, <<"HTTP " \o ToString(after.status),
                                             "Failed to download tarball">>)
                    /\ after.handed = 0 /\ after.written = 0
              /\ me.pc = "download" /\ after.pc = "done" /\ after.response.kind = "result" =>
                    me.reported = <<>> /\ after.reported = <<>> /\ after.status = 200
    ]_vars

C10_Witness ==
    \E r \in ToolReqs :
        /\ toolReq[r].reported = <<"gunzip", "request">>
        /\ toolReq[r].written = 1
        /\ RejectedWith(toolReq[r], <<"Decompression failed">>)
        /\ \E q \in ToolReqs : toolReq[q].status = 404

(***************************************************************************)
(* Claims about time, retries and failures of the tool calls.              *)
(***************************************************************************)
\* C11: a fetchAndExtract call that has not completed is never more than 30 s
\* old: when its overall duration exceeds 30 s it has been rejected (with the
\* timeout error) and its transfer aborted, also while archive data keeps
\* arriving at shorter intervals.
C11_OverallDurationIsBounded ==
    \A r \in ToolReqs :
        toolReq[r].pc = "download" /\ toolReq[r].socket = "open" =>
            toolReq[r].elapsed <= DownloadTimeoutMs

\* The package names a digest lists.
DigestNames(resultText) ==
    {resultText[i].name : i \in {j \in 1..Len(resultText) : resultText[j].line = "package"}}

\* C12: when a seed search of a recomputation settles, failed (request error,
\* timeout or unparsable body) or not, the recomputation goes on: a failed
\* search is logged and leaves the collected hits as they are, a successful
\* one adds its hits; then the next seed is searched, or after the last seed
\* the digest of the collected hits is stored in the slot and returned.
C12_FailedSeedIsSkipped ==
    [][\A r \in PopReqs : \A o \in SearchOutcomes :
          popReq[r].pc = "searching" /\ popReq'[r] # popReq[r] /\ SeedSearchSettles(r, o) =>
            LET me == popReq[r]
                after == popReq'[r]
            IN  /\ ~o.ok => /\ after.allPopularPackages = me.allPopularPackages
                            /\ after.errors = me.errors + 1
                /\ o.ok => /\ after.allPopularPackages
                                = me.allPopularPackages \cup {p.name : p \in Range(o.objects)}
                           /\ after.errors = me.errors
                /\ me.idx < SeedLimit =>
                      /\ after.pc = "searching"
                      /\ after.log = Append(me.log, SearchGet(SeedTerms[me.idx + 1], 10, 0))
                /\ me.idx = SeedLimit =>
                      /\ after.pc = "done"
                      /\ after.result # Null
                      /\ DigestNames(after.result) = after.allPopularPackages
                      /\ popularPackagesCache' = after.result
    ]_vars

\* C12 witness: a recomputation in which three of the five searches failed has
\* searched all five seeds and stored and returned a digest of both packages.
C12_Witness ==
    \E r \in PopReqs :
        /\ popReq[r].pc = "done" /\ popReq[r].errors = 3
        /\ Len(popReq[r].log) = SeedLimit
        /\ DigestNames(popReq[r].result) = {PkgA.name, PkgB.name}
        /\ popularPackagesCache = popReq[r].result

\* A request that has recomputed the digest and returned.
Recomputed(req) == req.pc = "done" /\ req.log # <<>>

\* C13: popularity requests that overlap exclude nothing: each that found the
\* slot stale or empty runs its own five seed searches and returns the digest
\* it formatted itself; each stores its digest together with its own timestamp
\* over whatever the slot held (last writer wins), so the slot always holds
\* the digest and the timestamp of one and the same request.
C13_LastWriterWins ==
    [][/\ \A r \in PopReqs :
            popReq[r].pc = "searching" /\ popReq'[r].pc = "done" =>
              /\ Len(popReq'[r].log) = SeedLimit
              /\ popReq'[r].result = FormatDigest(popReq'[r].packageDetails, clock)
              /\ popularPackagesCache' = popReq'[r].result
              /\ popularPackagesCacheTime' = popReq[r].now
       /\ popularPackagesCache' # Null =>
            \E r \in PopReqs :
              /\ Recomputed(popReq'[r])
              /\ popularPackagesCache' = popReq'[r].result
              /\ popularPackagesCacheTime' = popReq'[r].now
    ]_vars

\* C13 witness: call 2 began after call 1 and while call 1 was searching; both
\* ran five searches and returned different digests; call 1 stored last, so
\* the slot holds its digest with its (earlier) timestamp.
C13_Witness ==
    /\ Recomputed(popReq[1]) /\ Recomputed(popReq[2])
    /\ Len(popReq[1].log) = SeedLimit /\ Len(popReq[2].log) = SeedLimit
    /\ popReq[1].now < popReq[2].now
    /\ DigestNames(popReq[1].result) # DigestNames(popReq[2].result)
    /\ popularPackagesCache = popReq[1].result
    /\ popularPackagesCacheTime = popReq[1].now

\* C14: a call holds a package descriptor, the value fetchMetadata resolved
\* with, only if the response body parsed and contained both the archive URL
\* and the archive checksum.
C14_DescriptorHasUrlAndChecksum ==
    \A r \in ToolReqs :
        toolReq[r].packageInfo # Null =>
            /\ toolReq[r].packageInfo.parses
            /\ toolReq[r].packageInfo.hasDist
            /\ toolReq[r].packageInfo.tarball # ""
            /\ toolReq[r].packageInfo.shasum # ""

\* The GETs of the sequence gets sent to the endpoint.
GetsTo(gets, endpoint) == {i \in 1..Len(gets) : gets[i].endpoint = endpoint}

\* C15: no operation retries: a getPackageCode/listPackageFiles call has sent
\* at most one metadata GET and one archive GET, getPackageInfo at most one
\* metadata GET, searchPackages at most one search GET, and a popularity
\* recomputation at most one GET per seed term; no request is sent twice.
C15_NoRetries ==
    /\ \A r \in ToolReqs :
          LET me == toolReq[r]
              allowed == IF me.name \in ExtractingTools THEN {"metadata", "archive"}
                         ELSE IF me.name = "get_package_info" THEN {"metadata"}
                         ELSE IF me.name = "search_npm_packages" THEN {"search"}
                         ELSE {}
          IN  /\ \A i \in 1..Len(me.gets) : me.gets[i].endpoint \in allowed
              /\ \A e \in allowed : Cardinality(GetsTo(me.gets, e)) <= 1
    /\ \A r \in PopReqs :
          /\ Len(popReq[r].log) <= SeedLimit
          /\ \A i, j \in 1..Len(popReq[r].log) :
                popReq[r].log[i].text = popReq[r].log[j].text => i = j

\* C15 witness: a call whose archive GET failed after its metadata GET, next to
\* a recomputation in which searches failed: each GET was sent once.
C15_Witness ==
    /\ toolReq[1].pc = "done" /\ toolReq[1].reported = <<"request">>
    /\ Len(toolReq[1].gets) = 2
    /\ popReq[1].pc = "done" /\ popReq[1].errors = 2 /\ Len(popReq[1].log) = SeedLimit

\* The one error an operation hands to the protocol layer for a failure with
\* the original message.
OperationFailed(me, message) ==
    Failure(McpError("InternalError", <<FailedPrefix(me.name)>> \o message))

\* The messages downloadAndExtract rejects with.
ArchiveFailures ==
    {<<"HTTP 404", "Failed to download tarball">>, <<"Download failed">>,
     <<"Decompression failed">>, <<"Extraction failed">>, <<"Download timeout">>}

\* The messages of a failed single-file request.
FileFailures(filePath) ==
    {<<"File not found", filePath>>, <<"Path is not a file", filePath>>}

\* C16: every failure after the argument checks ends the call with exactly
\* one InternalError that consists of the operation's "failed" prefix and the
\* original message: a failed metadata request, a failed search, a failed
\* archive download or extraction, a single-file request for a missing file
\* or a directory; a call returns a result only when none of these failed,
\* and what a call was answered with never changes afterwards.
C16_OneOperationFailedError ==
    [][\A r \in ToolReqs :
          LET me == toolReq[r]
              after == toolReq'[r]
          IN  /\ me.pc = "meta" /\ after # me =>
                    \A o \in MetadataOutcomes :
                        ~o.ok /\ MetaSettles(r, o) =>
                            after.pc = "done"
                            /\ after.response = OperationFailed(me, o.error.message)
              /\ me.pc = "search" /\ after # me =>
                    \A o \in SearchFailures :
                        ToolSearchSettles(r, o) =>
                            after.pc = "done"
                            /\ after.response = OperationFailed(me, <<o.error>>)
              /\ me.pc = "download" /\ after.pc = "done" =>
                    IF after.stage # "ended"
                    THEN \E m \in ArchiveFailures : after.response = OperationFailed(me, m)
                    ELSE \/ after.response.kind = "result"
                            /\ after.reported = <<>> /\ after.status = 200
                            /\ after.written = Len(after.archive)
                         \/ \E m \in FileFailures(me.args.filePath.s) :
                                after.response = OperationFailed(me, m)
              /\ me.pc = "done" => after.response = me.response
    ]_vars

\* C16 witness: a single-file request whose archive failed in decompression
\* after an entry had been written, and was answered with the one error.
C16_Witness ==
    \E r \in ToolReqs :
        /\ toolReq[r].pc = "done" /\ toolReq[r].written = 1
        /\ toolReq[r].args.filePath.s = "a.js"
        /\ toolReq[r].response
             = Failure(McpError("InternalError",
                                <<"Failed to fetch package code", "Decompression failed">>))

(***************************************************************************)
(* More claims about the walkers (SpecWalk) and the unpacking.             *)
(***************************************************************************)
\* C17: the text of listPackageFiles lists the root-relative paths of the
\* files that were walked, each once, in strictly ascending lexicographic
\* order, and its total is the number of paths listed.
C17_ListingIsSortedAndCounted ==
    walkOut.listed # <<>> =>
        LET text == walkOut.listed[1].text
        IN  /\ \A i \in 1..(Len(text.files) - 1) : StringLess(text.files[i], text.files[i + 1])
            /\ text.total = Len(text.files)
            /\ Len(text.files) = Len(walkOut.listed[1].allFiles)
            /\ Range(text.files)
                 = {JoinSegs(SubSeq(path, Len(WalkRoot) + 1, Len(path))) : path \in ListedFiles}

\* C17 witness: a listing of at least four files that the walk did not find in
\* sorted order: index.js was walked first, README.md is listed first.
C17_Witness ==
    /\ walkOut.listed # <<>>
    /\ walkOut.listed[1].text.total >= 4
    /\ walkOut.listed[1].allFiles[1] = At(<<"index.js">>)
    /\ walkOut.listed[1].text.files[1] = "README.md"
    /\ \E i \in 1..walkOut.listed[1].text.total : walkOut.listed[1].text.files[i] = "lib/util.TS"

\* C18: every search GET of searchPackages carries a size from 1 to 250 and a
\* from offset of at least 0, and a call whose size or from is outside these
\* bounds sends no request.
C18_SearchGetWithinBounds ==
    \A r \in ToolReqs :
        LET me == toolReq[r]
        IN  me.name = "search_npm_packages" =>
              /\ \A i \in 1..Len(me.gets) :
                    /\ 1 <= me.gets[i].size /\ me.gets[i].size <= 250
                    /\ me.gets[i].from >= 0
              /\ ( \/ me.args.size.t = "number" /\ (me.args.size.n < 1 \/ me.args.size.n > 250)
                   \/ me.args.from.t = "number" /\ me.args.from.n < 0 )
                 => me.gets = <<>>

\* The files below the root that the walk of getAllFiles can reach: the root
\* and every directory on the way can be listed, none of them below the root
\* is hidden, and the file itself can be stat'ed.
ListableFiles ==
    {i \in 1..Len(fs) :
        /\ fs[i].kind = "file" /\ fs[i].acc # "nostat"
        /\ IsPrefix(WalkRoot, fs[i].path)
        /\ EntryAt(fs, WalkRoot).acc = "ok"
        /\ \A k \in (Len(WalkRoot) + 1)..(Len(fs[i].path) - 1) :
             /\ DescendsForListing(fs[i].path[k])
             /\ EntryAt(fs, SubSeq(fs[i].path, 1, k)).acc = "ok"}

\* C19: whatever directories cannot be listed, entries cannot be stat'ed and
\* candidate files cannot be read, both walks return a value, and it holds
\* exactly the files reachable through listable, non-skipped directories that
\* could be stat'ed (and, for collect, read), each once; a root that cannot be
\* listed yields an empty result.
C19_WalksSkipWhatTheyCannotRead ==
    /\ walkOut.listed # <<>> =>
         LET allFiles == walkOut.listed[1].allFiles
         IN  /\ Range(allFiles) = {fs[i].path : i \in ListableFiles}
             /\ Len(allFiles) = Cardinality(ListableFiles)
             /\ EntryAt(fs, WalkRoot).acc = "noread" => allFiles = <<>>
    /\ walkOut.collected # <<>> =>
         LET out == walkOut.collected[1]
             codeFiles == findCodeFiles(fs, WalkRoot)
         IN  /\ {codeFiles[i].path : i \in 1..Len(codeFiles)} = {fs[i].path : i \in CodeCandidates}
             /\ out.found = Cardinality(CodeCandidates)
             /\ \A i \in 1..Len(out.sections) :
                  \E j \in CodeCandidates :
                     /\ out.sections[i].relativePath = JoinSegs(PathRelative(WalkRoot, fs[j].path))
                     /\ out.sections[i].content = fs[j].data
             /\ EntryAt(fs, WalkRoot).acc = "noread" => out.found = 0 /\ out.sections = <<>>

\* C19 witness: both walks ran on a tree with a directory that cannot be
\* listed, an entry that cannot be stat'ed and a code file that cannot be
\* read; the listing holds the unreadable file and index.js and nothing of the
\* other two, the collection holds index.js and not the unreadable file.
C19_Witness ==
    /\ walkOut.pc = "done"
    /\ ExistsSync(fs, At(<<"gone.js">>)) /\ ExistsSync(fs, At(<<"locked", "x.js">>))
    /\ At(<<"index.js">>) \in ListedFiles
    /\ At(<<"bin.js">>) \in ListedFiles
    /\ At(<<"gone.js">>) \notin ListedFiles
    /\ At(<<"locked", "x.js">>) \notin ListedFiles
    /\ \E i \in 1..Len(walkOut.collected[1].sections) :
          walkOut.collected[1].sections[i].relativePath = "index.js"
    /\ \A i \in 1..Len(walkOut.collected[1].sections) :
          walkOut.collected[1].sections[i].relativePath \notin {"bin.js", "gone.js", "locked/x.js"}

\* C19, the root: both walks ran on a tree with files whose root cannot be
\* listed, and both results are empty.
C19_UnreadableRootSeen ==
    /\ walkOut.pc = "done"
    /\ EntryAt(fs, WalkRoot).acc = "noread"
    /\ Len(fs) > 3
    /\ walkOut.listed[1].allFiles = <<>>
    /\ walkOut.collected[1].found = 0

\* C20: for an archive whose entries all lie under one wrapper directory,
\* unpacking places each entry w/rest at sandbox-root/rest with its content,
\* one leading segment removed and the deeper ones kept; the sandbox holds
\* nothing else, so the wrapper directory itself is never in its root; the
\* listing of the finished call names the entries by rest.
C20_OneLeadingSegmentRemoved ==
    LET me == toolReq[1]
        root == me.extractPath
    IN  me.name = "list_package_files" /\ me.archive \in WrappedArchives =>
          /\ \A i \in 1..me.written :
                LET rest == Tail(me.archive[i].path)
                IN  /\ ExistsSync(fs, root \o rest)
                    /\ EntryAt(fs, root \o rest) = File(root \o rest, me.archive[i].data)
          /\ \A e \in Under(fs, root) :
                \E i \in 0..me.written :
                   IF i = 0 THEN e.path = root
                   ELSE IsPrefix(root, e.path) /\ IsPrefix(e.path, root \o Tail(me.archive[i].path))
          /\ \A i \in 1..Len(me.archive) :
                ExistsSync(fs, root \o <<me.archive[i].path[1]>>) =>
                   \E j \in 1..me.written : Tail(me.archive[j].path)[1] = me.archive[i].path[1]
          /\ me.pc = "done" /\ me.response.kind = "result" =>
                Range(me.response.text.files) =
                   {JoinSegs(Tail(me.archive[i].path)) : i \in 1..Len(me.archive)}

\* C20 witness: the archive package/a.js, package/b.md, package/.x has been
\* unpacked and listed: a.js, b.md and .x are in the sandbox root, and no
\* directory package is.
C20_Witness ==
    LET me == toolReq[1]
        root == me.extractPath
    IN  /\ me.pc = "done" /\ me.response.kind = "result"
        /\ [i \in 1..Len(me.archive) |-> me.archive[i].path] =
              <<(<<"package", "a.js">>), (<<"package", "b.md">>), (<<"package", ".x">>)>>
        /\ {e.path : e \in Under(fs, root)} =
              {root, root \o <<"a.js">>, root \o <<"b.md">>, root \o <<".x">>}
        /\ ~ExistsSync(fs, root \o <<"package">>)
        /\ me.response.text.total = 3

\* C21: within one downloadAndExtract call the steps occur in the order clean,
\* create, download, decompress, extract: in the step that opens the archive
\* GET the sandbox has been removed and recreated (it exists and is empty) and
\* nothing has been written; an entry is written only after the response has
\* been accepted and the entry has passed the decompression stage; and the
\* call resolves only when the unpack stage has signalled its end, with every
\* entry of the archive written.
C21_StepsInOrder ==
    [][\A r \in ToolReqs :
          LET me == toolReq[r]
              after == toolReq'[r]
          IN  /\ me.stage = "none" /\ after.stage = "sent" =>
                    /\ Under(fs', after.extractPath) = {Dir(after.extractPath)}
                    /\ after.gets[Len(after.gets)].endpoint = "archive"
                    /\ \A i \in 1..Len(me.gets) : me.gets[i].endpoint # "archive"
                    /\ after.handed = 0 /\ after.written = 0
              /\ after.written > me.written =>
                    /\ me.stage \notin {"none", "sent", "nopipe"}
                    /\ me.status = 200
                    /\ after.written <= me.handed
                    /\ ExistsSync(fs, me.extractPath) => ExistsSync(fs', me.extractPath)
              /\ me.pc = "download" /\ after.pc = "done" /\ after.response.kind = "result" =>
                    /\ after.stage = "ended"
                    /\ after.written = Len(after.archive)
                    /\ after.handed = Len(after.archive)]_vars

\* C21 witness: a call has resolved, all entries of its archive written, in a
\* sandbox that an earlier finished call for the same name had filled.
C21_Witness ==
    /\ RanAfter(2, 1)
    /\ toolReq[1].written = Len(toolReq[1].archive) /\ toolReq[1].response.kind = "result"
    /\ toolReq[2].pc = "done" /\ toolReq[2].response.kind = "result"
    /\ toolReq[2].stage = "ended" /\ toolReq[2].written = Len(toolReq[2].archive)

\* The searches of one full recomputation: one for each of the first five of
\* the ten configured terms, in configured order, with size 10 and offset 0.
SeedSearches == [i \in 1..5 |-> SearchGet(popularQueries[i], 10, 0)]

\* C22: one recomputation issues exactly one search for each of the first 5 of
\* the 10 configured seed terms and none for the other 5, in configured
\* order, each with size 10 and offset 0; the search for a seed is issued in
\* the step in which the search for the previous seed settles, so at most one
\* seed search of a recomputation is in flight.
C22_FiveSeedSearchesOneByOne ==
    [][\A r \in PopReqs :
          LET me == popReq[r]
              after == popReq'[r]
          IN  /\ Len(popularQueries) = 10
              /\ Len(after.log) <= 5
              /\ after.log = SubSeq(SeedSearches, 1, Len(after.log))
              /\ after.pc = "searching" => Len(after.log) = after.idx
              /\ after.pc = "done" => Len(after.log) \in {0, 5}
              /\ after.log # me.log =>
                    /\ Len(after.log) = Len(me.log) + 1
                    /\ \/ me.pc = "idle" /\ me.log = <<>>
                       \/ /\ me.pc = "searching" /\ after.idx = me.idx + 1
                          /\ \E o \in SearchOutcomes : SeedSearchSettles(r, o)]_vars

\* C22 witness: a recomputation has finished after failed and successful seed
\* searches: five searches were issued.
C22_Witness ==
    /\ popReq[1].pc = "done"
    /\ popReq[1].log = SeedSearches
    /\ popReq[1].errors \in 1..4
    /\ popReq[1].packageDetails # <<>>

\* The package blocks of a digest, in order.
DigestBlocks(resultText) == SelectSeq(resultText, LAMBDA b : b.line = "package")

\* C23: whatever the seed searches return, a recomputation keeps of each
\* package name the first hit it meets, in seed order, and only hits of its
\* own successful searches; the digest it produces lists each name at most
\* once, at most 50 packages, and only packages so collected.
C23_DigestIsDeduplicatedAndCapped ==
    [][\A o \in DigestOutcomes :
          ( /\ popReq[1].pc = "searching" /\ popReq'[1] # popReq[1]
            /\ popReq'[1].errors = popReq[1].errors + (IF o.ok THEN 0 ELSE 1)
            /\ {o.objects[i].name : i \in 1..Len(o.objects)} \subseteq popReq'[1].allPopularPackages
            /\ SeedSearchSettles(1, o) ) =>
            /\ Range(popReq[1].packageDetails) \subseteq Range(popReq'[1].packageDetails)
            /\ \A p \in Range(popReq'[1].packageDetails) \ Range(popReq[1].packageDetails) :
                  /\ p.name \notin popReq[1].allPopularPackages
                  /\ o.ok
                  /\ \E i \in 1..Len(o.objects) :
                        /\ o.objects[i] = p
                        /\ \A j \in 1..(i - 1) : o.objects[j].name # p.name
            /\ Cardinality({q.name : q \in Range(popReq'[1].packageDetails)})
                  = Len(popReq'[1].packageDetails)
            /\ popReq'[1].pc = "done" =>
                  /\ Len(DigestBlocks(popReq'[1].result)) = Min(Len(popReq'[1].packageDetails), 50)
                  /\ Cardinality(DigestNames(popReq'[1].result))
                        = Len(DigestBlocks(popReq'[1].result))
                  /\ DigestBlocks(popReq'[1].result) =
                        [i \in 1..Min(Len(popReq'[1].packageDetails), 50) |->
                            PackageBlock(popReq'[1].packageDetails[i], i)]]_vars

\* C23 witness: a recomputation collected more than 50 packages, among them
\* the first of the two hits named ab, and its digest lists 50.
C23_Witness ==
    /\ popReq[1].pc = "done"
    /\ Len(popReq[1].packageDetails) > 50
    /\ PkgA2 \in Range(popReq[1].packageDetails)
    /\ PkgA \notin Range(popReq[1].packageDetails)
    /\ Len(DigestBlocks(popReq[1].result)) = 50

\* C24: when a recomputation stores its digest, the timestamp stored with it
\* is the time at the moment of storing, after all seed searches have been
\* processed: the stored entry has age 0 at that moment.
C24_StoredAtTheTimeOfStoring ==
    [][\A r \in PopReqs :
          popReq[r].pc = "searching" /\ popReq'[r].pc = "done" =>
              /\ popularPackagesCache' = popReq'[r].result
              /\ popularPackagesCacheTime' = clock']_vars

\* The paths findCodeFiles returns for the walked tree.
CollectedPaths ==
    LET codeFiles == findCodeFiles(fs, WalkRoot)
    IN  {codeFiles[i].path : i \in 1..Len(codeFiles)}

\* C25: collect returns only regular files whose lower-cased extension is in
\* the allow-list (.js, .ts, .jsx, .tsx, .mjs, .cjs, .json), and never a file
\* with an ancestor directory, below the root, whose name starts with '.' or
\* is in the fixed skip set; a readable hidden file with such an extension
\* that lies directly in a reachable, non-skipped directory is returned.
C25_CollectsOnlyAllowListedFiles ==
    walkOut.collected # <<>> =>
        /\ \A path \in CollectedPaths :
              /\ ExistsSync(fs, path) /\ EntryAt(fs, path).kind = "file"
              /\ ToLowerCase(Extname(path[Len(path)]))
                    \in {".js", ".ts", ".jsx", ".tsx", ".mjs", ".cjs", ".json"}
              /\ \A name \in AncestorNames(path) :
                    /\ ~StartsWith(name, ".")
                    /\ name \notin {".git", ".svn", ".hg", "node_modules", ".DS_Store", "__pycache__"}
        /\ \A i \in 1..Len(walkOut.collected[1].sections) :
              \E path \in CollectedPaths :
                 walkOut.collected[1].sections[i].relativePath = JoinSegs(PathRelative(WalkRoot, path))
        /\ \A i \in CodeCandidates :
              StartsWith(fs[i].path[Len(fs[i].path)], ".") => fs[i].path \in CollectedPaths

\* C25 witness: a tree with allow-listed files under .git, node_modules and
\* __pycache__, a hidden .eslintrc.json at the root, an upper-case extension
\* and a directory named like a code file was collected: the sections hold
\* .eslintrc.json, lib/util.TS and lib/v1.js/main.mjs, none of the others.
C25_Witness ==
    /\ walkOut.collected # <<>>
    /\ ExistsSync(fs, At(<<".git", "config.json">>))
    /\ ExistsSync(fs, At(<<"node_modules", "lib.js">>))
    /\ ExistsSync(fs, At(<<"__pycache__", "m.json">>))
    /\ ExistsSync(fs, At(<<"lib", "notes.txt">>))
    /\ {walkOut.collected[1].sections[i].relativePath : i \in 1..Len(walkOut.collected[1].sections)}
          = {".eslintrc.json", "lib/util.TS", "lib/v1.js/main.mjs"}

\* C26: every downloadAndExtract call eventually settles, whatever the network
\* and the pipeline stages do: a call that awaits downloadAndExtract
\* eventually goes on, with the sandbox root or with an error.
C26_DownloadEventuallySettles ==
    \A r \in ToolReqs : (toolReq[r].pc = "download") ~> (toolReq[r].pc = "done")

\* C26: the state the call stays in: the promise neither resolved nor
\* rejected, the connection closed, nothing left to run.
C26_PendingForever ==
    /\ toolReq[1].pc = "download"
    /\ toolReq[1].socket = "closed"
    /\ toolReq[1].written = toolReq[1].handed

\* The call r has started downloadAndExtract.
Extracts(r) == toolReq[r].name \in ExtractingTools /\ toolReq[r].extractPath # <<>>

\* C27: a downloadAndExtract call for package name n removes, creates and
\* writes only inside the sandbox directory of sanitize(n): no step of the
\* call changes the sandbox directory of a call for a name whose sanitized
\* form differs from sanitize(n).
C27_OtherSandboxesUntouched ==
    [][\A r, q \in ToolReqs :
          ( /\ toolReq'[r] # toolReq[r]
            /\ Extracts(q)
            /\ toolReq'[r].name \in ExtractingTools
            /\ toolReq'[r].args.given /\ toolReq[q].args.given
            /\ IsString(toolReq'[r].args.packageName) /\ IsString(toolReq[q].args.packageName)
            /\ Sanitize(toolReq'[r].args.packageName.s) # Sanitize(toolReq[q].args.packageName.s) )
          => Under(fs', toolReq[q].extractPath) = Under(fs, toolReq[q].extractPath)]_vars

\* C28: for every packageName the check accepts, '.' and '..' included, the
\* sandbox path downloadAndExtract removes and recreates is a direct child of
\* the temp parent directory, never that directory itself nor one outside it.
C28_SandboxIsChildOfTempDir ==
    \A r \in ToolReqs :
        Extracts(r) =>
            /\ IsPrefix(tempDir, toolReq[r].extractPath)
            /\ Len(toolReq[r].extractPath) = Len(tempDir) + 1

\* C29: if fetchPackageInfo fails for a getPackageCode or listPackageFiles
\* request, the request is answered with the error in that step, has issued
\* no archive GET and changes nothing in the file system, so every sandbox,
\* the one of the requested name with an earlier extraction included, stays
\* as it is; an archive GET is only ever sent for a descriptor with a tarball.
C29_MetadataFailureTouchesNothing ==
    [][\A r \in ToolReqs :
          LET me == toolReq[r]
              after == toolReq'[r]
          IN  /\ ( me.name \in ExtractingTools /\ me.pc = "meta" /\ after.pc = "done" ) =>
                    /\ after.response.kind = "error"
                    /\ GetsTo(after.gets, "archive") = {}
                    /\ after.stage = "none" /\ after.extractPath = <<>>
                    /\ fs' = fs
              /\ ( me.name \in ExtractingTools /\ me.pc = "meta" /\ after.pc = "download" ) =>
                    /\ after.packageInfo.parses /\ after.packageInfo.hasDist
                    /\ after.packageInfo.tarball # ""
              /\ ( me.pc = "done" /\ me.stage = "none" ) => after = me]_vars

\* C29 witness: the second call for the name p failed at its metadata request
\* after the first had unpacked its archive: no archive GET of the second,
\* and the sandbox of p still holds the first call's extraction.
C29_Witness ==
    /\ toolReq[1].pc = "done" /\ toolReq[1].response.kind = "result"
    /\ toolReq[1].extractPath = ExtractPath("p") /\ toolReq[1].archive = ArchiveA
    /\ toolReq[2].name \in ExtractingTools /\ toolReq[2].args.packageName = Str("p")
    /\ toolReq[2].pc = "done" /\ toolReq[2].response.kind = "error"
    /\ toolReq[2].stage = "none"
    /\ Len(toolReq[2].gets) = 1 /\ toolReq[2].gets[1].endpoint = "metadata"
    /\ Under(fs, ExtractPath("p")) = Under(AloneFs(toolReq[1], 2), ExtractPath("p"))

\* C30: if every seed search of a recomputation fails, the recomputation
\* still completes without error and stores a digest that lists zero
\* packages; a popularity request made while that digest is in the slot with
\* an age below the TTL is served it, with no search, as any other digest.
C30_EmptyDigestIsStoredAndServed ==
    [][\A r \in PopReqs :
          /\ ( /\ popReq[r].pc = "searching" /\ popReq'[r].pc = "done"
               /\ popReq'[r].errors = 5 ) =>
                  /\ popReq'[r].result # Null
                  /\ DigestBlocks(popReq'[r].result) = <<>>
                  /\ popularPackagesCache' = popReq'[r].result
          /\ ( /\ PopCallMade(r)
               /\ popularPackagesCache # Null
               /\ DigestBlocks(popularPackagesCache) = <<>>
               /\ clock - popularPackagesCacheTime < CACHE_DURATION ) =>
                  /\ popReq'[r].pc = "done"
                  /\ popReq'[r].result = popularPackagesCache
                  /\ popReq'[r].log = <<>>
                  /\ UNCHANGED <<popularPackagesCache, popularPackagesCacheTime>>]_vars

\* C30 witness: all five seed searches of the first request failed; the second
\* request, made later within the TTL, was served the digest without packages
\* and searched nothing.
C30_Witness ==
    /\ popReq[1].pc = "done" /\ Len(popReq[1].log) = 5 /\ popReq[1].errors = 5
    /\ DigestBlocks(popReq[1].result) = <<>>
    /\ popReq[2].pc = "done" /\ popReq[2].log = <<>>
    /\ popReq[2].now > popReq[1].now
    /\ popReq[2].result = popReq[1].result
    /\ popularPackagesCache = popReq[1].result

\* C31: across every sequence and interleaving of popularity requests the
\* timestamp held in the cache slot never decreases, and whenever the slot is
\* non-empty its timestamp is not later than the current time.
C31_TimestampNeverDecreases ==
    [][/\ popularPackagesCacheTime' >= popularPackagesCacheTime
       /\ popularPackagesCache' # Null => popularPackagesCacheTime' <= clock']_vars

\* C31, the part that holds: the timestamp of a non-empty slot is not later
\* than the current time.
C31_TimestampNotInTheFuture ==
    popularPackagesCache # Null => popularPackagesCacheTime <= clock

\* The steps of C32's safety part: what is delivered stays as delivered, and a
\* timeout that fires on a pending request fails the call with the timeout
\* failure.
C32_Once(r) ==
    LET me == toolReq[r]
        after == toolReq'[r]
    IN  /\ me.pc = "done" => after.pc = "done" /\ after.response = me.response
        /\ me.packageInfo # Null => after.packageInfo = me.packageInfo
        /\ me.pc = "download" /\ DownloadTimeout(r) =>
              RejectedWith(after, <<"Download timeout">>)
        /\ me.pc = "meta" /\ after.pc = "done" /\ after.response.kind = "failure"
              /\ MetaSettles(r, [ok |-> FALSE, error |-> PlainError(<<"Request timeout">>),
                                 packageInfo |-> MetadataBody(FALSE, FALSE, "", "", "")]) =>
              RejectedWith(after, <<"Request timeout">>)
        /\ me.pc = "search" /\ after.pc = "done" /\ after.response.kind = "failure"
              /\ ToolSearchSettles(r, [SearchFailure EXCEPT !.error = "Search request timeout"]) =>
              RejectedWith(after, <<"Search request timeout">>)

\* C32, the part that holds: the first settling event decides the outcome of
\* a metadata, search or archive call; a timeout that fires before completion
\* fails the call with the timeout failure, and no later event (a late end of
\* the response, a late stage error, the error of the destroyed request, a
\* timeout after a reported status) changes what was delivered.
C32_FirstSettlementStands == [][\A r \in {1} : C32_Once(r)]_vars

\* A call whose timeout was delivered and whose listeners ran again afterwards.
C32_LateEventsSeen ==
    /\ toolReq[1].late = MaxLate
    /\ toolReq[1].reported = <<"request">>
    /\ RejectedWith(toolReq[1], <<"Download timeout">>)

\* C32: each metadata, search and archive call settles exactly once, by the
\* first settling event: it settles, a timeout before completion fails it with
\* the timeout failure, and events after the settlement never change the
\* outcome delivered.
C32_SettlesExactlyOnce ==
    /\ C32_FirstSettlementStands
    /\ \A r \in {1} : toolReq[r].pc \in {"meta", "search", "download"}
                         ~> toolReq[r].pc = "done"

\* The archive call that never settles: the connection closed after the
\* headers, the listeners of the closed request have all run.
C32_NeverSettled ==
    /\ toolReq[1].pc = "download" /\ toolReq[1].socket = "closed"
    /\ toolReq[1].status = 200 /\ toolReq[1].reported = <<>>

=============================================================================
